---- MODULE Spec2Model ----
(***************************************************************************)
(* State-machine model of the todo process (src/todo/src/lib.rs): the      *)
(* entry/note store, the two id counters, the link synchroniser, the       *)
(* websocket subscriber set and the events pushed to subscribers.          *)
(*                                                                         *)
(* Option<T> is modelled as a sequence of length <= 1 (<<>> is None,       *)
(* <<x>> is Some(x)); Vec<T> as a sequence; HashSet<T> as a set; String as *)
(* a sequence of one-character strings.                                    *)
(*                                                                         *)
(* Entry and Note carry the fields the handlers read or compute.  The      *)
(* remaining draft fields (summary, description, project, priority,        *)
(* start_ts, dependencies, assignees; content, pinned, tags, accent) are   *)
(* copied from the draft into the record; the drafts of the model leave    *)
(* them empty, so they are left out of the records.  search_all, the one   *)
(* handler that reads some of them, finds no query in an empty field.      *)
(***************************************************************************)
EXTENDS Integers, Sequences, FiniteSets, TLC

VARIABLES
    entries,             \* TodoState.entries: Vec<Entry>
    notes,               \* TodoState.notes: Vec<Note>
    next_entry_id,       \* TodoState.next_entry_id
    next_note_id,        \* TodoState.next_note_id
    connected_channels,  \* TodoState.connected_channels: HashSet<u32>
    sent,                \* per channel, the messages send_ws_push was given by the last handler
    view,                \* per channel, the replica a client keeps from what it was sent
    last,                \* the last handler that ran: its name, result and broadcasts
    assigned             \* history: the ids the creating saves returned, in order

vars == <<entries, notes, next_entry_id, next_note_id, connected_channels,
          sent, view, last, assigned>>

store == <<entries, notes, next_entry_id, next_note_id>>

-----------------------------------------------------------------------------
(* Bounds of the model *)

MaxEntries == 2     \* entries created in one behaviour
MaxNotes == 2       \* notes created in one behaviour
MaxLinks == 2       \* length of a draft's link list
NumChannels == 2    \* websocket channels

Channels == 1..NumChannels
EntryIds == 1..MaxEntries
NoteIds == 1..MaxNotes

RECURSIVE SeqsUpTo(_, _)
SeqsUpTo(S, n) ==
    IF n = 0 THEN {<<>>}
    ELSE LET shorter == SeqsUpTo(S, n - 1)
         IN  shorter \cup {Append(s, x) : s \in shorter, x \in S}

None == <<>>
Some(x) == <<x>>

-----------------------------------------------------------------------------
(* Vec / str helpers *)

Contains(seq, x) == \E i \in 1..Len(seq) : seq[i] = x

Retain(seq, x) == SelectSeq(seq, LAMBDA y : y /= x)

ToSet(seq) == {seq[i] : i \in 1..Len(seq)}

IsWhitespace(c) == c \in {" ", "\t", "\n"}

RECURSIVE TrimStart(_)
TrimStart(s) ==
    IF s /= <<>> /\ IsWhitespace(Head(s)) THEN TrimStart(Tail(s)) ELSE s

RECURSIVE TrimEnd(_)
TrimEnd(s) ==
    IF s /= <<>> /\ IsWhitespace(s[Len(s)])
    THEN TrimEnd(SubSeq(s, 1, Len(s) - 1))
    ELSE s

\* the title is tested as given
Trim_Nothing(s) == s

Trim(s) == TrimEnd(TrimStart(s))

FindById(seq, id) ==
    IF \E i \in 1..Len(seq) : seq[i].id = id
    THEN Some(CHOOSE i \in 1..Len(seq) :
                  seq[i].id = id /\ \A j \in 1..(i - 1) : seq[j].id /= id)
    ELSE None

\* Vec::swap_remove: the last element takes the place of the one removed
RemoveAt_SwapRemove(seq, idx) ==
    IF idx = Len(seq) THEN SubSeq(seq, 1, Len(seq) - 1)
    ELSE [SubSeq(seq, 1, Len(seq) - 1) EXCEPT ![idx] = seq[Len(seq)]]

\* Vec::remove
RemoveAt(seq, idx) == SubSeq(seq, 1, idx - 1) \o SubSeq(seq, idx + 1, Len(seq))

-----------------------------------------------------------------------------
(* Link synchroniser *)

\* a note that is wanted is reported whether or not the link was added
SyncNoteDirty_Always(note, entry_id, desired) ==
    IF note.id \in desired
    THEN TRUE
    ELSE Len(Retain(note.linked_entry_ids, entry_id)) /= Len(note.linked_entry_ids)

SyncNoteDirty(note, entry_id, desired) ==
    IF note.id \in desired
    THEN ~Contains(note.linked_entry_ids, entry_id)
    ELSE Len(Retain(note.linked_entry_ids, entry_id)) /= Len(note.linked_entry_ids)

\* the missing link is assigned, not pushed: the note's other links are lost
SyncNote_ReplacesLinks(note, entry_id, desired) ==
    IF note.id \in desired
    THEN IF ~Contains(note.linked_entry_ids, entry_id)
         THEN [note EXCEPT !.linked_entry_ids = <<entry_id>>]
         ELSE note
    ELSE [note EXCEPT !.linked_entry_ids = Retain(@, entry_id)]

\* the note is given the missing link, but a link that is no longer wanted stays
SyncNote_KeepsStale(note, entry_id, desired) ==
    IF note.id \in desired /\ ~Contains(note.linked_entry_ids, entry_id)
    THEN [note EXCEPT !.linked_entry_ids = Append(@, entry_id)]
    ELSE note

SyncNote(note, entry_id, desired) ==
    IF note.id \in desired
    THEN IF ~Contains(note.linked_entry_ids, entry_id)
         THEN [note EXCEPT !.linked_entry_ids = Append(@, entry_id)]
         ELSE note
    ELSE [note EXCEPT !.linked_entry_ids = Retain(@, entry_id)]

Touched(old, new, dirty(_)) ==
    LET pairs == [i \in 1..Len(old) |-> <<dirty(old[i]), new[i]>>]
        kept  == SelectSeq(pairs, LAMBDA p : p[1])
    IN  [i \in 1..Len(kept) |-> kept[i][2]]

sync_entry_note_links(ns, entry_id, note_ids) ==
    LET desired == ToSet(note_ids)
        new     == [i \in 1..Len(ns) |-> SyncNote(ns[i], entry_id, desired)]
    IN  [notes   |-> new,
         touched |-> Touched(ns, new, LAMBDA n : SyncNoteDirty(n, entry_id, desired))]

SyncEntryDirty(entry, note_id, desired) ==
    IF entry.id \in desired
    THEN ~Contains(entry.note_ids, note_id)
    ELSE Len(Retain(entry.note_ids, note_id)) /= Len(entry.note_ids)

\* Vec::remove of the first match in place of retain
RemoveFirst(seq, x) ==
    IF Contains(seq, x)
    THEN RemoveAt(seq, CHOOSE i \in 1..Len(seq) :
                           seq[i] = x /\ \A j \in 1..(i - 1) : seq[j] /= x)
    ELSE seq

\* an unwanted link is taken out once, not everywhere
SyncEntry_RemovesFirst(entry, note_id, desired) ==
    IF entry.id \in desired
    THEN IF ~Contains(entry.note_ids, note_id)
         THEN [entry EXCEPT !.note_ids = Append(@, note_id)]
         ELSE entry
    ELSE [entry EXCEPT !.note_ids = RemoveFirst(@, note_id)]

SyncEntry(entry, note_id, desired) ==
    IF entry.id \in desired
    THEN IF ~Contains(entry.note_ids, note_id)
         THEN [entry EXCEPT !.note_ids = Append(@, note_id)]
         ELSE entry
    ELSE [entry EXCEPT !.note_ids = Retain(@, note_id)]

sync_note_entry_links(es, note_id, entry_ids) ==
    LET desired == ToSet(entry_ids)
        new     == [i \in 1..Len(es) |-> SyncEntry(es[i], note_id, desired)]
    IN  [entries |-> new,
         touched |-> Touched(es, new, LAMBDA e : SyncEntryDirty(e, note_id, desired))]

-----------------------------------------------------------------------------
(* Time.  A timestamp (i64 milliseconds since the epoch in the source) is   *)
(* counted here in ticks of TicksPerDay to the day, so that the checker's   *)
(* integers hold it; a date (NaiveDate) is a number of days since           *)
(* 1970-01-01, and the Local time zone is taken to be UTC.                  *)

TicksPerDay == 2

MaxYear == 262142    \* chrono's NaiveDate::MAX is 262142-12-31
MinYear == 0 - 262143  \* chrono's NaiveDate::MIN is -262143-01-01

\* NaiveDate::from_ymd: days since 1970-01-01 of a proleptic Gregorian date
DaysFromCivil(year, month, day) ==
    LET y   == IF month <= 2 THEN year - 1 ELSE year
        era == y \div 400
        yoe == y - era * 400
        mp  == IF month > 2 THEN month - 3 ELSE month + 9
        doy == (153 * mp + 2) \div 5 + day - 1
        doe == yoe * 365 + yoe \div 4 - yoe \div 100 + doy
    IN  era * 146097 + doe - 719468

\* Datelike::year / Datelike::month of a date
CivilFromDays(days) ==
    LET z   == days + 719468
        era == z \div 146097
        doe == z - era * 146097
        yoe == (doe - doe \div 1460 + doe \div 36524 - doe \div 146096) \div 365
        doy == doe - (365 * yoe + yoe \div 4 - yoe \div 100)
        mp  == (5 * doy + 2) \div 153
        d   == doy - (153 * mp + 2) \div 5 + 1
        m   == IF mp < 10 THEN mp + 3 ELSE mp - 9
        y   == yoe + era * 400 + (IF m <= 2 THEN 1 ELSE 0)
    IN  [year |-> y, month |-> m, day |-> d]

\* the weekday is numbered from Sunday: Sunday = 1 .. Saturday = 7
NumberFromSunday(days) == ((days + 4) % 7) + 1

\* Weekday::number_from_monday: Monday = 1 .. Sunday = 7 (1970-01-01 was a Thursday)
NumberFromMonday(days) == ((days + 3) % 7) + 1

\* date_naive() of a timestamp
DateNaive(ts) == ts \div TicksPerDay

\* Local.timestamp_millis_opt(ts): Single inside chrono's range of dates, None outside
TimestampOpt(ts) ==
    IF /\ DateNaive(ts) >= DaysFromCivil(MinYear, 1, 1)
       /\ DateNaive(ts) <= DaysFromCivil(MaxYear, 12, 31)
    THEN Some(ts)
    ELSE None

last_day_of_month(year, month) ==
    LET next_month == IF month = 12 THEN 1 ELSE month + 1
        next_year  == IF month = 12 THEN year + 1 ELSE year
    IN  DaysFromCivil(next_year, next_month, 1) - 1

\* now is the reading of the clock (Local::now()) the call makes
compute_timescale(due_ts, now) ==
    IF due_ts = None THEN "Someday"
    ELSE IF TimestampOpt(due_ts[1]) = None THEN "Someday"
    ELSE LET today        == DateNaive(now)
             due_date     == DateNaive(due_ts[1])
             weekday      == NumberFromMonday(today)
             end_of_week  == today + (7 - weekday)
             civil        == CivilFromDays(today)
             end_of_month == last_day_of_month(civil.year, civil.month)
         IN  IF due_date < today THEN "Overdue"
             ELSE IF due_date = today THEN "Today"
             ELSE IF due_date <= end_of_week THEN "ThisWeek"
             ELSE IF due_date <= end_of_month THEN "ThisMonth"
             ELSE "Later"

\* the timescale is computed from the due date alone
refresh_entry_timescale_IgnoresCompletion(entry, now) ==
    [entry EXCEPT !.timescale = compute_timescale(entry.due_ts, now)]

refresh_entry_timescale(entry, now) ==
    [entry EXCEPT !.timescale =
        IF entry.is_completed THEN "Completed" ELSE compute_timescale(entry.due_ts, now)]

-----------------------------------------------------------------------------
(* WsServerMessage *)

Snapshot(es, ns)       == [type |-> "Snapshot", entries |-> es, notes |-> ns]
EntryUpdated(entry)    == [type |-> "EntryUpdated", entry |-> entry]
EntryRemoved(entry_id) == [type |-> "EntryRemoved", entry_id |-> entry_id]
NoteUpdated(note)      == [type |-> "NoteUpdated", note |-> note]
NoteRemoved(note_id)   == [type |-> "NoteRemoved", note_id |-> note_id]

MapSeq(seq, Op(_)) == [i \in 1..Len(seq) |-> Op(seq[i])]

NoPush == [c \in Channels |-> <<>>]

\* send_ws_push(channel_id, Text, blob): out is what has been pushed so far
send_ws_message(out, channel_id, message) ==
    [out EXCEPT ![channel_id] = Append(@, message)]

\* the message is pushed without the test for an empty set, to every channel
broadcast_Unguarded(out, channels, message) ==
    [c \in Channels |-> Append(out[c], message)]

\* the message goes to every channel once one channel is connected
broadcast_ToEveryChannel(out, channels, message) ==
    IF channels = {} THEN out
    ELSE [c \in Channels |-> Append(out[c], message)]

\* one call of broadcast: the message goes to every connected channel
broadcast(out, channels, message) ==
    IF channels = {} THEN out
    ELSE [c \in Channels |-> IF c \in channels THEN Append(out[c], message) ELSE out[c]]

\* the calls of broadcast after the first are lost
BroadcastAll_FirstOnly(out, channels, messages) ==
    IF messages = <<>> THEN out ELSE broadcast(out, channels, Head(messages))

\* the handler's calls of broadcast, in order
RECURSIVE BroadcastAll(_, _, _)
BroadcastAll(out, channels, messages) ==
    IF messages = <<>> THEN out
    ELSE BroadcastAll(broadcast(out, channels, Head(messages)), channels, Tail(messages))

-----------------------------------------------------------------------------
(* The replica of a client: it takes the Snapshot, then applies each event  *)
(* in the order it is delivered.  A client that has no Snapshot yet, or     *)
(* whose channel closed, holds no replica.                                  *)

ApplyEvent(v, ev) ==
    IF ev.type = "Snapshot"
    THEN Some([entries |-> ToSet(ev.entries), notes |-> ToSet(ev.notes)])
    ELSE IF v = None THEN None
    ELSE IF ev.type = "EntryUpdated"
    THEN Some([v[1] EXCEPT !.entries = {e \in @ : e.id /= ev.entry.id} \cup {ev.entry}])
    ELSE IF ev.type = "EntryRemoved"
    THEN Some([v[1] EXCEPT !.entries = {e \in @ : e.id /= ev.entry_id}])
    ELSE IF ev.type = "NoteUpdated"
    THEN Some([v[1] EXCEPT !.notes = {n \in @ : n.id /= ev.note.id} \cup {ev.note}])
    ELSE Some([v[1] EXCEPT !.notes = {n \in @ : n.id /= ev.note_id}])

RECURSIVE ApplyEvents(_, _)
ApplyEvents(v, evs) ==
    IF evs = <<>> THEN v ELSE ApplyEvents(ApplyEvent(v, Head(evs)), Tail(evs))

-----------------------------------------------------------------------------
(* Handlers.  Each handler is a function of the state and of its arguments  *)
(* that gives what the state is when it returns, the Result it returns      *)
(* ("Ok" with the value in ret, or the Err string) and the messages it gave *)
(* to broadcast, in order.  now is the reading of the clock the handler     *)
(* takes.                                                                   *)

Returned(es, ns, eid, nid, result, ret, emitted) ==
    [entries |-> es, notes |-> ns, next_entry_id |-> eid, next_note_id |-> nid,
     result |-> result, ret |-> ret, emitted |-> emitted]

\* a return of Err before anything is changed
Err(error) ==
    Returned(entries, notes, next_entry_id, next_note_id, error, None, <<>>)

UpdateEntry(entry, draft, now) ==
    refresh_entry_timescale(
        [entry EXCEPT !.title = draft.title,
                      !.status = draft.status,
                      !.due_ts = draft.due_ts,
                      !.note_ids = draft.note_ids], now)

NewEntry(id, draft, now) ==
    refresh_entry_timescale(
        [id |-> id,
         title |-> draft.title,
         status |-> draft.status,
         timescale |-> "Someday",
         due_ts |-> draft.due_ts,
         note_ids |-> draft.note_ids,
         is_completed |-> FALSE,
         completed_at_ts |-> None], now)

\* the entry is broadcast before the touched notes
SaveEntryEmitted_EntryFirst(touched_notes, entry) ==
    <<EntryUpdated(entry)>> \o MapSeq(touched_notes, NoteUpdated)

\* the broadcasts of save_entry: the touched notes, then the entry
SaveEntryEmitted(touched_notes, entry) ==
    MapSeq(touched_notes, NoteUpdated) \o <<EntryUpdated(entry)>>

\* the tail of save_entry, from the call of sync_entry_note_links on
SaveEntryFinish(es, eid, entry) ==
    LET synced == sync_entry_note_links(notes, entry.id, entry.note_ids)
    IN  Returned(es, synced.notes, eid, next_note_id, "Ok", Some(entry),
                 SaveEntryEmitted(synced.touched, entry))

\* the new entry's id is taken from the length of the collection
save_entry_IdFromLen(draft, now) ==
    IF Trim(draft.title) = <<>>
    THEN Err("Entries require a title.")
    ELSE IF draft.id /= None
    THEN LET idx == FindById(entries, draft.id[1])
         IN  IF idx = None
             THEN Err("Entry not found")
             ELSE LET entry == UpdateEntry(entries[idx[1]], draft, now)
                  IN  SaveEntryFinish([entries EXCEPT ![idx[1]] = entry],
                                      next_entry_id, entry)
    ELSE LET entry == NewEntry(Len(entries) + 1, draft, now)
         IN  SaveEntryFinish(Append(entries, entry), next_entry_id + 1, entry)

\* a draft whose id is not in the store is saved as a new entry
save_entry_Upsert(draft, now) ==
    IF Trim(draft.title) = <<>>
    THEN Err("Entries require a title.")
    ELSE IF draft.id /= None /\ FindById(entries, draft.id[1]) /= None
    THEN LET idx   == FindById(entries, draft.id[1])
             entry == UpdateEntry(entries[idx[1]], draft, now)
         IN  SaveEntryFinish([entries EXCEPT ![idx[1]] = entry], next_entry_id, entry)
    ELSE LET entry == NewEntry(next_entry_id, draft, now)
         IN  SaveEntryFinish(Append(entries, entry), next_entry_id + 1, entry)

save_entry(draft, now) ==
    IF Trim(draft.title) = <<>>
    THEN Err("Entries require a title.")
    ELSE IF draft.id /= None
    THEN LET idx == FindById(entries, draft.id[1])
         IN  IF idx = None
             THEN Err("Entry not found")
             ELSE LET entry == UpdateEntry(entries[idx[1]], draft, now)
                  IN  SaveEntryFinish([entries EXCEPT ![idx[1]] = entry],
                                      next_entry_id, entry)
    ELSE LET entry == NewEntry(next_entry_id, draft, now)
         IN  SaveEntryFinish(Append(entries, entry), next_entry_id + 1, entry)

\* an entry that is un-completed goes back to Backlog
ToggleEntry_RevertsStatus(entry, completed, now) ==
    refresh_entry_timescale(
        [entry EXCEPT !.is_completed = completed,
                      !.status = IF completed THEN "Done" ELSE "Backlog",
                      !.completed_at_ts = IF completed THEN Some(now) ELSE None], now)

ToggleEntry(entry, completed, now) ==
    refresh_entry_timescale(
        [entry EXCEPT !.is_completed = completed,
                      !.status = IF completed THEN "Done" ELSE @,
                      !.completed_at_ts = IF completed THEN Some(now) ELSE None], now)

toggle_entry_completion(entry_id, completed, now) ==
    LET idx == FindById(entries, entry_id)
    IN  IF idx = None
        THEN Err("Entry not found")
        ELSE LET snapshot == ToggleEntry(entries[idx[1]], completed, now)
             IN  Returned([entries EXCEPT ![idx[1]] = snapshot], notes,
                          next_entry_id, next_note_id, "Ok", Some(snapshot),
                          <<EntryUpdated(snapshot)>>)

\* only the removal is broadcast
DeleteEntryEmitted_RemovalOnly(entry_id, touched_notes) == <<EntryRemoved(entry_id)>>

\* the broadcasts of delete_entry: the removal, then the touched notes
DeleteEntryEmitted(entry_id, touched_notes) ==
    <<EntryRemoved(entry_id)>> \o MapSeq(touched_notes, NoteUpdated)

delete_entry(entry_id) ==
    LET idx == FindById(entries, entry_id)
    IN  IF idx = None
        THEN Err("Entry not found")
        ELSE LET entry  == entries[idx[1]]
                 synced == sync_entry_note_links(notes, entry.id, <<>>)
             IN  Returned(RemoveAt(entries, idx[1]), synced.notes,
                          next_entry_id, next_note_id, "Ok", Some(TRUE),
                          DeleteEntryEmitted(entry_id, synced.touched))

UpdateNote(note, draft, now) ==
    [note EXCEPT !.title = draft.title,
                 !.linked_entry_ids = draft.linked_entry_ids,
                 !.last_edited_ts = now]

NewNote(id, draft, now) ==
    [id |-> id,
     title |-> draft.title,
     linked_entry_ids |-> draft.linked_entry_ids,
     last_edited_ts |-> now]

\* the note is broadcast before the touched entries
SaveNoteEmitted_NoteFirst(touched_entries, note) ==
    <<NoteUpdated(note)>> \o MapSeq(touched_entries, EntryUpdated)

\* the touched entries are not broadcast
SaveNoteEmitted_NoteOnly(touched_entries, note) == <<NoteUpdated(note)>>

\* the broadcasts of save_note: the touched entries, then the note
SaveNoteEmitted(touched_entries, note) ==
    MapSeq(touched_entries, EntryUpdated) \o <<NoteUpdated(note)>>

\* the tail of save_note, from the call of sync_note_entry_links on
SaveNoteFinish(ns, nid, note) ==
    LET synced == sync_note_entry_links(entries, note.id, note.linked_entry_ids)
    IN  Returned(synced.entries, ns, next_entry_id, nid, "Ok", Some(note),
                 SaveNoteEmitted(synced.touched, note))

save_note(draft, now) ==
    IF Trim(draft.title) = <<>>
    THEN Err("Notes require a title.")
    ELSE IF draft.id /= None
    THEN LET idx == FindById(notes, draft.id[1])
         IN  IF idx = None
             THEN Err("Note not found")
             ELSE LET note == UpdateNote(notes[idx[1]], draft, now)
                  IN  SaveNoteFinish([notes EXCEPT ![idx[1]] = note], next_note_id, note)
    ELSE LET note == NewNote(next_note_id, draft, now)
         IN  SaveNoteFinish(Append(notes, note), next_note_id + 1, note)

\* the removal is broadcast after the touched entries
DeleteNoteEmitted_RemovalLast(note_id, touched_entries) ==
    MapSeq(touched_entries, EntryUpdated) \o <<NoteRemoved(note_id)>>

\* the broadcasts of delete_note: the removal, then the touched entries
DeleteNoteEmitted(note_id, touched_entries) ==
    <<NoteRemoved(note_id)>> \o MapSeq(touched_entries, EntryUpdated)

delete_note(note_id) ==
    LET idx == FindById(notes, note_id)
    IN  IF idx = None
        THEN Err("Note not found")
        ELSE LET synced == sync_note_entry_links(entries, note_id, <<>>)
             IN  Returned(synced.entries, RemoveAt(notes, idx[1]),
                          next_entry_id, next_note_id, "Ok", Some(TRUE),
                          DeleteNoteEmitted(note_id, synced.touched))

-----------------------------------------------------------------------------
(* The run of a command handler, point by point: the store at the point and *)
(* the message given to broadcast there, if any.  A handler writes its      *)
(* record (or removes it), calls the link synchroniser, and then makes its  *)
(* calls of broadcast.                                                      *)

Point(es, ns, message) == [entries |-> es, notes |-> ns, message |-> message]

\* the calls of broadcast are made before the call of the synchroniser
Run_BroadcastsBeforeSync(es, ns, r) ==
    <<Point(es, ns, None)>>
    \o [k \in 1..Len(r.emitted) |-> Point(es, ns, Some(r.emitted[k]))]
    \o <<Point(r.entries, r.notes, None)>>

\* es, ns: the store when the handler has written or removed its record;
\* r: what the handler returns
Run(es, ns, r) ==
    IF r.result /= "Ok" THEN <<>>
    ELSE <<Point(es, ns, None), Point(r.entries, r.notes, None)>>
         \o [k \in 1..Len(r.emitted) |-> Point(r.entries, r.notes, Some(r.emitted[k]))]

\* sync_entry_note_links writes notes only: the entries before it are those returned
SaveEntryRun(draft, now) ==
    LET r == save_entry(draft, now) IN Run(r.entries, notes, r)

ToggleRun(entry_id, completed, now) ==
    LET r == toggle_entry_completion(entry_id, completed, now) IN Run(r.entries, notes, r)

DeleteEntryRun(entry_id) ==
    LET r == delete_entry(entry_id) IN Run(r.entries, notes, r)

\* sync_note_entry_links writes entries only: the notes before it are those returned
SaveNoteRun(draft, now) ==
    LET r == save_note(draft, now) IN Run(entries, r.notes, r)

DeleteNoteRun(note_id) ==
    LET r == delete_note(note_id) IN Run(entries, r.notes, r)

\* char::to_lowercase on the letters the model's strings are made of
Lowercase(c) ==
    CASE c = "A" -> "a"
      [] c = "B" -> "b"
      [] OTHER -> c

\* str::to_lowercase
ToLowercase(s) == [i \in 1..Len(s) |-> Lowercase(s[i])]

\* str::contains(&pattern): the pattern is a substring; the empty pattern is
\* one of every string
StrContains(s, pattern) ==
    \E i \in 0..(Len(s) - Len(pattern)) : SubSeq(s, i + 1, i + Len(pattern)) = pattern

\* query.unwrap_or_default()
UnwrapOrDefault(query) == IF query = None THEN <<>> ELSE query[1]

MatchAll(query) == query = <<>> \/ query = <<"*">>

\* the wildcard is tested before the status
EntryMatches_MatchAllFirst(entry, query) ==
    IF MatchAll(query) THEN TRUE
    ELSE IF entry.status = "Archived" THEN FALSE
    ELSE StrContains(ToLowercase(entry.title), ToLowercase(query))

\* the filter of search_all over the entries.  Of the text fields it reads,
\* the records of the model carry the title; summary, description, project
\* and assignees are those of a draft that leaves them empty, and an empty
\* field contains no query that is not itself empty.
EntryMatches(entry, query) ==
    IF entry.status = "Archived" THEN FALSE
    ELSE IF MatchAll(query) THEN TRUE
    ELSE StrContains(ToLowercase(entry.title), ToLowercase(query))

\* the filter of search_all over the notes (content, summary and tags empty)
NoteMatches(note, query) ==
    IF MatchAll(query) THEN TRUE
    ELSE StrContains(ToLowercase(note.title), ToLowercase(query))

SearchAllResult(es, ns) == [entries |-> es, notes |-> ns]

\* search_all takes &self: it returns the state as it found it
search_all(query) ==
    LET q == UnwrapOrDefault(query)
    IN  Returned(entries, notes, next_entry_id, next_note_id, "Ok",
                 Some(SearchAllResult(SelectSeq(entries, LAMBDA e : EntryMatches(e, q)),
                                      SelectSeq(notes, LAMBDA n : NoteMatches(n, q)))),
                 <<>>)

\* String::from_utf8(blob.bytes) then serde_json::from_str::<WsClientMessage>:
\* the two unit variants are the JSON strings "Subscribe" and "Ping"
\* the bare word is taken for the message too
ParseClientMessage_Unquoted(payload) ==
    IF ~payload.utf8 THEN None
    ELSE IF payload.text \in {<<"\"", "Subscribe", "\"">>, <<"Subscribe">>} THEN Some("Subscribe")
    ELSE IF payload.text = <<"\"", "Ping", "\"">> THEN Some("Ping")
    ELSE None

ParseClientMessage(payload) ==
    IF ~payload.utf8 THEN None
    ELSE IF payload.text = <<"\"", "Subscribe", "\"">> THEN Some("Subscribe")
    ELSE IF payload.text = <<"\"", "Ping", "\"">> THEN Some("Ping")
    ELSE None

\* the Snapshot goes to every subscribed channel
send_snapshot_ToAll(out, channel_id) ==
    broadcast(out, connected_channels \cup {channel_id}, Snapshot(entries, notes))

send_snapshot(out, channel_id) ==
    send_ws_message(out, channel_id, Snapshot(entries, notes))

\* websocket gives the subscriber set it leaves and what it pushed
websocket(channel_id, message_type, payload) ==
    IF message_type = "Text"
    THEN IF ParseClientMessage(payload) = Some("Subscribe")
         THEN [connected_channels |-> connected_channels \cup {channel_id},
               pushed |-> send_snapshot(NoPush, channel_id)]
         ELSE [connected_channels |-> connected_channels, pushed |-> NoPush]
    ELSE IF message_type = "Close"
    THEN [connected_channels |-> connected_channels \ {channel_id}, pushed |-> NoPush]
    ELSE [connected_channels |-> connected_channels, pushed |-> NoPush]

-----------------------------------------------------------------------------
(* The state machine *)

\* What is kept of the last handler that ran: its name, its result, the value
\* it returned in Ok and the messages it gave to broadcast.
Ran(op, result, ret, emitted) ==
    [op |-> op, result |-> result, ret |-> ret, emitted |-> emitted]

Init ==
    /\ entries = <<>>
    /\ notes = <<>>
    /\ next_entry_id = 1
    /\ next_note_id = 1
    /\ connected_channels = {}
    /\ sent = NoPush
    /\ view = [c \in Channels |-> None]
    /\ last = Ran("init", "Ok", None, <<>>)
    /\ assigned = [entries |-> <<>>, notes |-> <<>>]

\* the history of ids: a save that pushed a record returned that record's id
Assigned(op, r) ==
    [entries |-> IF op = "save_entry" /\ Len(r.entries) > Len(entries)
                 THEN Append(assigned.entries, r.ret[1].id) ELSE assigned.entries,
     notes   |-> IF op = "save_note" /\ Len(r.notes) > Len(notes)
                 THEN Append(assigned.notes, r.ret[1].id) ELSE assigned.notes]

\* A command handler runs to its return: the state is what it leaves, each
\* broadcast has gone to the channels connected, and each client has applied
\* what it was sent.  The counters are capped by the bounds of the model.
Commit(op, r) ==
    /\ entries' = r.entries
    /\ notes' = r.notes
    /\ next_entry_id' = r.next_entry_id
    /\ next_note_id' = r.next_note_id
    /\ assigned' = Assigned(op, r)
    /\ sent' = BroadcastAll(NoPush, connected_channels, r.emitted)
    /\ view' = [c \in Channels |-> ApplyEvents(view[c], sent'[c])]
    /\ UNCHANGED connected_channels

Handle(op, r) ==
    /\ r.next_entry_id <= MaxEntries + 1
    /\ r.next_note_id <= MaxNotes + 1
    /\ Commit(op, r)

Command(op, r) ==
    /\ Handle(op, r)
    /\ last' = Ran(op, r.result, r.ret, r.emitted)

\* a Close empties the store
HandleWs_CloseDropsStore(channel_id, message_type, w) ==
    /\ connected_channels' = w.connected_channels
    /\ sent' = w.pushed
    /\ view' = [c \in Channels |->
                  IF c = channel_id /\ message_type = "Close" THEN None
                  ELSE ApplyEvents(view[c], w.pushed[c])]
    /\ last' = Ran("websocket", "Ok", None, <<>>)
    /\ entries' = IF message_type = "Close" THEN <<>> ELSE entries
    /\ UNCHANGED <<notes, next_entry_id, next_note_id, assigned>>

\* the websocket handler runs to its return; a client whose channel closed
\* drops its replica
CommitWs(channel_id, message_type, w) ==
    /\ connected_channels' = w.connected_channels
    /\ sent' = w.pushed
    /\ view' = [c \in Channels |->
                  IF c = channel_id /\ message_type = "Close" THEN None
                  ELSE ApplyEvents(view[c], w.pushed[c])]
    /\ UNCHANGED <<entries, notes, next_entry_id, next_note_id, assigned>>

HandleWs(channel_id, message_type, w) ==
    /\ CommitWs(channel_id, message_type, w)
    /\ last' = Ran("websocket", "Ok", None, <<>>)

-----------------------------------------------------------------------------
(* The inputs the handlers are given *)

BlankTitles == {<<>>, <<" ", "\t">>}

GoodTitles == {<<" ", "a">>}

Statuses == {"Backlog"}

Monday == DaysFromCivil(2024, 6, 10)

Times == {Monday * TicksPerDay + 1}

DueChoices == {None}

OptionOf(S) == {None} \cup {Some(x) : x \in S}

\* every draft with a title whose link list has at most n ids, and for each
\* blank title one draft per target
EntryDrafts(n) ==
    [id : OptionOf(EntryIds), title : GoodTitles, status : Statuses,
     due_ts : DueChoices, note_ids : SeqsUpTo(NoteIds, n)]
    \cup
    [id : OptionOf(EntryIds), title : BlankTitles, status : Statuses,
     due_ts : DueChoices, note_ids : {<<1>>}]

NoteDrafts(n) ==
    [id : OptionOf(NoteIds), title : GoodTitles,
     linked_entry_ids : SeqsUpTo(EntryIds, n)]
    \cup
    [id : OptionOf(NoteIds), title : BlankTitles, linked_entry_ids : {<<1>>}]

NoPayload == [utf8 |-> TRUE, text |-> <<>>]

TextPayloads ==
    {[utf8 |-> TRUE, text |-> <<"\"", "Subscribe", "\"">>],
     [utf8 |-> TRUE, text |-> <<"\"", "Ping", "\"">>],
     [utf8 |-> TRUE, text |-> <<"Subscribe">>],
     [utf8 |-> FALSE, text |-> <<>>]}

\* a Text frame with each payload, each other frame with an empty one
Frames ==
    {[message_type |-> "Text", payload |-> p] : p \in TextPayloads}
    \cup
    {[message_type |-> t, payload |-> NoPayload] : t \in {"Close", "Pong", "Ping", "Binary"}}

-----------------------------------------------------------------------------
(* Spec: every handler, with drafts that link at most one record, and one   *)
(* client on the websocket                                                  *)

SaveEntry ==
    \E draft \in EntryDrafts(MaxLinks - 1), now \in Times :
        Command("save_entry", save_entry(draft, now))

ToggleEntryCompletion ==
    \E entry_id \in EntryIds, completed \in BOOLEAN, now \in Times :
        Command("toggle_entry_completion",
                toggle_entry_completion(entry_id, completed, now))

DeleteEntry == \E entry_id \in EntryIds : Command("delete_entry", delete_entry(entry_id))

SaveNote ==
    \E draft \in NoteDrafts(MaxLinks - 1), now \in Times :
        Command("save_note", save_note(draft, now))

DeleteNote == \E note_id \in NoteIds : Command("delete_note", delete_note(note_id))

\* the channel of the one client
OneChannel == {CHOOSE c \in Channels : \A d \in Channels : c <= d}

WebsocketOne ==
    \E channel_id \in OneChannel, frame \in Frames :
        HandleWs(channel_id, frame.message_type,
                 websocket(channel_id, frame.message_type, frame.payload))

Next ==
    \/ SaveEntry
    \/ ToggleEntryCompletion
    \/ DeleteEntry
    \/ SaveNote
    \/ DeleteNote
    \/ WebsocketOne

Spec == Init /\ [][Next]_vars

-----------------------------------------------------------------------------
(* SpecLinks: the handlers that write links, with drafts whose link lists   *)
(* have up to MaxLinks ids (so duplicates too), and one client on the       *)
(* websocket                                                                *)

SaveEntryLinks ==
    \E draft \in EntryDrafts(MaxLinks), now \in Times :
        Command("save_entry", save_entry(draft, now))

SaveNoteLinks ==
    \E draft \in NoteDrafts(MaxLinks), now \in Times :
        Command("save_note", save_note(draft, now))

NextLinks ==
    \/ SaveEntryLinks
    \/ DeleteEntry
    \/ SaveNoteLinks
    \/ DeleteNote
    \/ WebsocketOne

SpecLinks == Init /\ [][NextLinks]_vars

-----------------------------------------------------------------------------
(* SpecChannels: the saves and the deletes, with drafts that link at most   *)
(* one record, and a client on each websocket channel                       *)

Websocket ==
    \E channel_id \in Channels, frame \in Frames :
        HandleWs(channel_id, frame.message_type,
                 websocket(channel_id, frame.message_type, frame.payload))

NextChannels ==
    \/ SaveEntry
    \/ DeleteEntry
    \/ SaveNote
    \/ DeleteNote
    \/ Websocket

SpecChannels == Init /\ [][NextChannels]_vars

-----------------------------------------------------------------------------
(* SpecStore: the five commands on the store alone, with no client and no   *)
(* record of the last handler, with drafts whose link lists have up to      *)
(* MaxLinks ids                                                             *)

Quiet(op, r) == Handle(op, r) /\ UNCHANGED last

SaveEntryStore ==
    \E draft \in EntryDrafts(MaxLinks), now \in Times : Quiet("save_entry", save_entry(draft, now))

ToggleStore ==
    \E entry_id \in EntryIds, completed \in BOOLEAN, now \in Times :
        Quiet("toggle_entry_completion",
              toggle_entry_completion(entry_id, completed, now))

DeleteEntryStore == \E entry_id \in EntryIds : Quiet("delete_entry", delete_entry(entry_id))

SaveNoteStore ==
    \E draft \in NoteDrafts(MaxLinks), now \in Times : Quiet("save_note", save_note(draft, now))

DeleteNoteStore == \E note_id \in NoteIds : Quiet("delete_note", delete_note(note_id))

NextStore ==
    \/ SaveEntryStore
    \/ ToggleStore
    \/ DeleteEntryStore
    \/ SaveNoteStore
    \/ DeleteNoteStore

SpecStore == Init /\ [][NextStore]_vars

-----------------------------------------------------------------------------
(* SpecTime: one entry and one note, saved, toggled and linked while the    *)
(* clock moves from a Monday to the Tuesday after it, with drafts that are  *)
(* due on several days or on no day at all                                  *)

MaxTimed == 1       \* entries, and notes, created in one behaviour of SpecTime

Tuesday == Monday + 1

\* the readings of the clock: late on the Monday, at the start of the Tuesday
TimedNows == {Monday * TicksPerDay + 1, Tuesday * TicksPerDay}

\* a timestamp later than any date chrono holds
TooLate == (DaysFromCivil(MaxYear, 12, 31) + 1) * TicksPerDay

\* no due date, due on the Monday, due on the Sunday that ends its week, due
\* after every date there is
TimedDues == {None, Some(Monday * TicksPerDay), Some((Monday + 6) * TicksPerDay + 1),
              Some(TooLate)}

TimedStatuses == {"Backlog", "InProgress"}

TimedEntryDrafts ==
    [id : OptionOf(1..MaxTimed), title : GoodTitles, status : TimedStatuses,
     due_ts : TimedDues, note_ids : SeqsUpTo(1..MaxTimed, 1)]

TimedNoteDrafts ==
    [id : OptionOf(1..MaxTimed), title : GoodTitles,
     linked_entry_ids : SeqsUpTo(1..MaxTimed, 1)]

\* a command of SpecTime: it creates no more than MaxTimed records of a kind
Timed(op, r) ==
    /\ r.next_entry_id <= MaxTimed + 1
    /\ r.next_note_id <= MaxTimed + 1
    /\ Command(op, r)

SaveEntryTimed ==
    \E draft \in TimedEntryDrafts, now \in TimedNows :
        Timed("save_entry", save_entry(draft, now))

ToggleTimed ==
    \E entry_id \in 1..MaxTimed, completed \in BOOLEAN, now \in TimedNows :
        Timed("toggle_entry_completion",
              toggle_entry_completion(entry_id, completed, now))

SaveNoteTimed ==
    \E draft \in TimedNoteDrafts, now \in TimedNows :
        Timed("save_note", save_note(draft, now))

DeleteNoteTimed == \E note_id \in 1..MaxTimed : Timed("delete_note", delete_note(note_id))

NextTime ==
    \/ SaveEntryTimed
    \/ ToggleTimed
    \/ SaveNoteTimed
    \/ DeleteNoteTimed

SpecTime == Init /\ [][NextTime]_vars

-----------------------------------------------------------------------------
(* SpecSearch: entries that are archived or not, under titles in upper and  *)
(* lower case, saved, deleted and searched, with one client on the          *)
(* websocket                                                                *)

SearchTitles == {<<"A", "b">>, <<"b">>}

SearchStatuses == {"Backlog", "Archived"}

\* no query, the empty query, the wildcard, a title in either case, a part
\* of a title, a query that no title contains, a wildcard inside a query
SearchQueries ==
    OptionOf({<<>>, <<"*">>, <<"A", "b">>, <<"a", "B">>, <<"b">>, <<"c">>, <<"*", "b">>})

SearchEntryDrafts ==
    [id : OptionOf(EntryIds), title : SearchTitles, status : SearchStatuses,
     due_ts : DueChoices, note_ids : {<<>>}]

SearchNoteDrafts ==
    [id : {None}, title : SearchTitles, linked_entry_ids : {<<>>}]

SaveEntrySearch ==
    \E draft \in SearchEntryDrafts, now \in Times :
        Command("save_entry", save_entry(draft, now))

SaveNoteSearch ==
    \E draft \in SearchNoteDrafts, now \in Times :
        Command("save_note", save_note(draft, now))

SearchAll == \E query \in SearchQueries : Command("search_all", search_all(query))

NextSearch ==
    \/ SaveEntrySearch
    \/ SaveNoteSearch
    \/ DeleteEntry
    \/ SearchAll
    \/ WebsocketOne

SpecSearch == Init /\ [][NextSearch]_vars

-----------------------------------------------------------------------------
(* SpecOrder: up to MaxOrder entries and MaxOrder notes, created, renamed,  *)
(* linked and deleted, with no client                                       *)

MaxOrder == 3       \* entries, and notes, created in one behaviour of SpecOrder

OrderIds == 1..MaxOrder

OrderTitles == {<<"a">>, <<"b">>}

\* a draft that creates has the first title and no link; a draft that
\* updates has the second title, and no link or a link to the first record
OrderEntryDrafts ==
    [id : {None}, title : {<<"a">>}, status : Statuses, due_ts : DueChoices,
     note_ids : {<<>>}]
    \cup
    [id : {Some(id) : id \in OrderIds}, title : {<<"b">>}, status : Statuses,
     due_ts : DueChoices, note_ids : {<<>>, <<1>>}]

OrderNoteDrafts ==
    [id : {None}, title : {<<"a">>}, linked_entry_ids : {<<>>}]
    \cup
    [id : {Some(id) : id \in OrderIds}, title : {<<"b">>},
     linked_entry_ids : {<<>>, <<1>>}]

\* a command of SpecOrder: it creates no more than MaxOrder records of a kind
Ordered(op, r) ==
    /\ r.next_entry_id <= MaxOrder + 1
    /\ r.next_note_id <= MaxOrder + 1
    /\ Commit(op, r)
    /\ last' = Ran(op, r.result, r.ret, r.emitted)

SaveEntryOrder ==
    \E draft \in OrderEntryDrafts, now \in Times :
        Ordered("save_entry", save_entry(draft, now))

DeleteEntryOrder ==
    \E entry_id \in OrderIds : Ordered("delete_entry", delete_entry(entry_id))

SaveNoteOrder ==
    \E draft \in OrderNoteDrafts, now \in Times :
        Ordered("save_note", save_note(draft, now))

DeleteNoteOrder ==
    \E note_id \in OrderIds : Ordered("delete_note", delete_note(note_id))

NextOrder ==
    \/ SaveEntryOrder
    \/ DeleteEntryOrder
    \/ SaveNoteOrder
    \/ DeleteNoteOrder

SpecOrder == Init /\ [][NextOrder]_vars

-----------------------------------------------------------------------------
(* SpecFrames: saves of entries and notes and deletes of entries while two  *)
(* clients send every frame; the record of a websocket step keeps the       *)
(* frame and its channel                                                    *)

RanWs(channel_id, frame) ==
    [op |-> "websocket", result |-> "Ok", ret |-> None, emitted |-> <<>>,
     channel_id |-> channel_id, frame |-> frame]

WebsocketFrames ==
    \E channel_id \in Channels, frame \in Frames :
        /\ CommitWs(channel_id, frame.message_type,
                    websocket(channel_id, frame.message_type, frame.payload))
        /\ last' = RanWs(channel_id, frame)

NextFrames ==
    \/ SaveEntry
    \/ SaveNote
    \/ DeleteEntry
    \/ WebsocketFrames

SpecFrames == Init /\ [][NextFrames]_vars

-----------------------------------------------------------------------------
(* Claims *)

IdsOf(seq) == {seq[i].id : i \in 1..Len(seq)}

HasDuplicate(seq) == \E i, j \in 1..Len(seq) : i /= j /\ seq[i] = seq[j]

Linked(entry, note) == Contains(entry.note_ids, note.id)

LinkedBack(entry, note) == Contains(note.linked_entry_ids, entry.id)

\* C1: in every reachable state, for every entry E and note N in the store,
\* N.id is in E.note_ids if and only if E.id is in N.linked_entry_ids.
C1_LinkSymmetry ==
    \A i \in 1..Len(entries), j \in 1..Len(notes) :
        Linked(entries[i], notes[j]) <=> LinkedBack(entries[i], notes[j])

\* a completed entry and a note linked both ways, while some link list holds a
\* duplicate and some link list names a record that is not in the store
C1_Witness ==
    /\ \E i \in 1..Len(entries), j \in 1..Len(notes) :
          /\ Linked(entries[i], notes[j])
          /\ LinkedBack(entries[i], notes[j])
          /\ entries[i].is_completed
    /\ \/ \E i \in 1..Len(entries) : HasDuplicate(entries[i].note_ids)
       \/ \E j \in 1..Len(notes) : HasDuplicate(notes[j].linked_entry_ids)
    /\ \/ \E i \in 1..Len(entries) : ~(ToSet(entries[i].note_ids) \subseteq IdsOf(notes))
       \/ \E j \in 1..Len(notes) :
              ~(ToSet(notes[j].linked_entry_ids) \subseteq IdsOf(entries))

\* C2: in every reachable state every id in an entry's note_ids is the id of
\* a note in the store, and every id in a note's linked_entry_ids is the id
\* of an entry in the store.
C2_NoDanglingReferences ==
    /\ \A i \in 1..Len(entries) : ToSet(entries[i].note_ids) \subseteq IdsOf(notes)
    /\ \A j \in 1..Len(notes) : ToSet(notes[j].linked_entry_ids) \subseteq IdsOf(entries)

Iota(n) == [k \in 1..n |-> k]

CreatingEntryDrafts ==
    {d \in EntryDrafts(MaxLinks) : d.id = None /\ d.title \in GoodTitles}

CreatingNoteDrafts ==
    {d \in NoteDrafts(MaxLinks) : d.id = None /\ d.title \in GoodTitles}

\* C4: the k-th successful creating save_entry returns id k, whatever ran in
\* between; so the next creating save returns an id greater than every id
\* ever returned, no two entries in the store share an id, and every entry in
\* the store carries an id that was returned.  Notes obey the same rule with
\* their own counter: a save_entry leaves next_note_id alone and a save_note
\* leaves next_entry_id alone.
C4_IdsMonotonic ==
    /\ assigned.entries = Iota(Len(assigned.entries))
    /\ assigned.notes = Iota(Len(assigned.notes))
    /\ \A i, j \in 1..Len(entries) : i /= j => entries[i].id /= entries[j].id
    /\ \A i, j \in 1..Len(notes) : i /= j => notes[i].id /= notes[j].id
    /\ IdsOf(entries) \subseteq ToSet(assigned.entries)
    /\ IdsOf(notes) \subseteq ToSet(assigned.notes)
    /\ \A d \in CreatingEntryDrafts, now \in Times :
          LET r == save_entry(d, now)
          IN  /\ r.result = "Ok"
              /\ r.ret[1].id = Len(assigned.entries) + 1
              /\ \A id \in ToSet(assigned.entries) : r.ret[1].id > id
              /\ r.next_note_id = next_note_id
    /\ \A d \in CreatingNoteDrafts, now \in Times :
          LET r == save_note(d, now)
          IN  /\ r.result = "Ok"
              /\ r.ret[1].id = Len(assigned.notes) + 1
              /\ \A id \in ToSet(assigned.notes) : r.ret[1].id > id
              /\ r.next_entry_id = next_entry_id

\* two entries were created and the first was deleted; so was a note, and
\* more entries than notes were created
C4_Witness ==
    /\ assigned.entries = <<1, 2>>
    /\ IdsOf(entries) = {2}
    /\ assigned.notes = <<1>>
    /\ notes = <<>>
    /\ \E i \in 1..Len(entries) : entries[i].is_completed

\* C7: a second call of sync_entry_note_links with the same entry id and the
\* same desired ids, right after the first, returns no touched note and
\* changes no note; the same for sync_note_entry_links over the entries.
C7_SyncIdempotent ==
    /\ \A entry_id \in EntryIds, note_ids \in SeqsUpTo(NoteIds, MaxLinks) :
          LET first  == sync_entry_note_links(notes, entry_id, note_ids)
              second == sync_entry_note_links(first.notes, entry_id, note_ids)
          IN  second.touched = <<>> /\ second.notes = first.notes
    /\ \A note_id \in NoteIds, entry_ids \in SeqsUpTo(EntryIds, MaxLinks) :
          LET first  == sync_note_entry_links(entries, note_id, entry_ids)
              second == sync_note_entry_links(first.entries, note_id, entry_ids)
          IN  second.touched = <<>> /\ second.entries = first.entries

\* a first call that adds the link to one note and takes a link held twice
\* out of another
C7_Witness ==
    \E entry_id \in EntryIds, note_ids \in SeqsUpTo(NoteIds, MaxLinks) :
        LET first == sync_entry_note_links(notes, entry_id, note_ids)
        IN  /\ Len(first.touched) = 2
            /\ \E j \in 1..Len(notes) :
                  /\ HasDuplicate(notes[j].linked_entry_ids)
                  /\ Contains(notes[j].linked_entry_ids, entry_id)
                  /\ ~Contains(first.notes[j].linked_entry_ids, entry_id)
            /\ \E j \in 1..Len(notes) :
                  /\ ~Contains(notes[j].linked_entry_ids, entry_id)
                  /\ Contains(first.notes[j].linked_entry_ids, entry_id)

\* a handler's return that left the store as it was and broadcast nothing
NoEffect(r) ==
    /\ r.entries = entries
    /\ r.notes = notes
    /\ r.next_entry_id = next_entry_id
    /\ r.next_note_id = next_note_id
    /\ r.emitted = <<>>

\* a step that left the store, the subscribers and the replicas as they were
\* and pushed nothing to any channel
StepNoEffect ==
    /\ UNCHANGED <<entries, notes, next_entry_id, next_note_id, connected_channels,
                   view, assigned>>
    /\ sent' = NoPush
    /\ last'.emitted = <<>>

\* a title that is empty after trimming: it holds nothing but whitespace
Blank(title) == \A i \in 1..Len(title) : title[i] \in {" ", "\t", "\n"}

TitleErrors == {"Entries require a title.", "Notes require a title."}

NotFoundErrors == {"Entry not found", "Note not found"}

C5_BlankTitleIsErr ==
    /\ \A d \in EntryDrafts(MaxLinks), now \in Times :
          Blank(d.title) =>
              LET r == save_entry(d, now)
              IN  r.result = "Entries require a title." /\ NoEffect(r)
    /\ \A d \in NoteDrafts(MaxLinks), now \in Times :
          Blank(d.title) =>
              LET r == save_note(d, now)
              IN  r.result = "Notes require a title." /\ NoEffect(r)

C5_ErrStep == last'.result \in TitleErrors => StepNoEffect

\* C5: save_entry or save_note with a title that is empty after trimming
\* returns an error, leaves entries, notes, both counters and the subscriber
\* set as they were, and sends no event to any channel.
C5_ValidationNoEffect == []C5_BlankTitleIsErr /\ [][C5_ErrStep]_vars

\* a save_entry was refused for its title while the store held an entry and a
\* note and a channel was subscribed
C5_Witness ==
    /\ last.op = "save_entry"
    /\ last.result = "Entries require a title."
    /\ entries /= <<>>
    /\ notes /= <<>>
    /\ connected_channels /= {}

C6_AbsentIdIsErr ==
    /\ \A d \in EntryDrafts(MaxLinks), now \in Times :
          (~Blank(d.title) /\ d.id /= None /\ d.id[1] \notin IdsOf(entries)) =>
              LET r == save_entry(d, now)
              IN  r.result = "Entry not found" /\ NoEffect(r)
    /\ \A d \in NoteDrafts(MaxLinks), now \in Times :
          (~Blank(d.title) /\ d.id /= None /\ d.id[1] \notin IdsOf(notes)) =>
              LET r == save_note(d, now)
              IN  r.result = "Note not found" /\ NoEffect(r)
    /\ \A id \in EntryIds \ IdsOf(entries) :
          /\ \A completed \in BOOLEAN, now \in Times :
                LET r == toggle_entry_completion(id, completed, now)
                IN  r.result = "Entry not found" /\ NoEffect(r)
          /\ LET r == delete_entry(id)
             IN  r.result = "Entry not found" /\ NoEffect(r)
    /\ \A id \in NoteIds \ IdsOf(notes) :
          LET r == delete_note(id)
          IN  r.result = "Note not found" /\ NoEffect(r)

C6_ErrStep == last'.result \in NotFoundErrors => StepNoEffect

\* C6: save_entry / save_note with draft.id naming an id not in the store,
\* toggle_entry_completion on an absent entry id and delete_entry /
\* delete_note on an absent id each return an error, leave entries, notes
\* and both counters as they were, and send no event.
C6_NotFoundNoEffect == []C6_AbsentIdIsErr /\ [][C6_ErrStep]_vars

\* a toggle was refused for its id while the store held another entry, linked
\* to a note, and a channel was subscribed
C6_Witness ==
    /\ last.op = "toggle_entry_completion"
    /\ last.result = "Entry not found"
    /\ \E i \in 1..Len(entries), j \in 1..Len(notes) : Linked(entries[i], notes[j])
    /\ connected_channels /= {}

NoteById(ns, id) == ns[FindById(ns, id)[1]]

EntryById(es, id) == es[FindById(es, id)[1]]

InSeq(seq, x) == \E k \in 1..Len(seq) : seq[k] = x

\* every channel connected when the handler ran was pushed the message
PushedToAll(message) == \A c \in connected_channels : InSeq(sent'[c], message)

C3_DeleteEntryStep ==
    (last'.op = "delete_entry" /\ last'.result = "Ok") =>
        LET gone == IdsOf(entries) \ IdsOf(entries')
        IN  /\ Cardinality(gone) = 1
            /\ \A id \in gone :
                  /\ \A j \in 1..Len(notes') : ~Contains(notes'[j].linked_entry_ids, id)
                  /\ \A j \in 1..Len(notes) :
                        Contains(notes[j].linked_entry_ids, id) =>
                            LET update == NoteUpdated(NoteById(notes', notes[j].id))
                            IN  InSeq(last'.emitted, update) /\ PushedToAll(update)

C3_DeleteNoteStep ==
    (last'.op = "delete_note" /\ last'.result = "Ok") =>
        LET gone == IdsOf(notes) \ IdsOf(notes')
        IN  /\ Cardinality(gone) = 1
            /\ \A id \in gone :
                  /\ \A i \in 1..Len(entries') : ~Contains(entries'[i].note_ids, id)
                  /\ \A i \in 1..Len(entries) :
                        Contains(entries[i].note_ids, id) =>
                            LET update == EntryUpdated(EntryById(entries', entries[i].id))
                            IN  InSeq(last'.emitted, update) /\ PushedToAll(update)

\* C3: when delete_entry(E) succeeds, afterwards no note's linked_entry_ids
\* holds E.id, and every note that held it just before is broadcast in a
\* NoteUpdated by that command (and pushed to every connected channel);
\* likewise delete_note(N) with the entries and EntryUpdated.
C3_DeletionCascades == [][C3_DeleteEntryStep /\ C3_DeleteNoteStep]_vars

\* an entry was deleted that two notes referred to, with a channel subscribed
C3_Witness ==
    /\ last.op = "delete_entry"
    /\ last.result = "Ok"
    /\ Len(last.emitted) = 3
    /\ last.emitted[2].type = "NoteUpdated"
    /\ last.emitted[3].type = "NoteUpdated"
    /\ \E c \in connected_channels : sent[c] = last.emitted

C8_SyncEntryLinksExact ==
    \A entry_id \in EntryIds, note_ids \in SeqsUpTo(NoteIds, MaxLinks) :
        LET r == sync_entry_note_links(notes, entry_id, note_ids)
        IN  /\ Len(r.notes) = Len(notes)
            /\ ~HasDuplicate(r.touched)
            /\ ToSet(r.touched) \subseteq ToSet(r.notes)
            /\ \A j \in 1..Len(notes) :
                  /\ r.notes[j].id = notes[j].id
                  /\ InSeq(r.touched, r.notes[j]) <=>
                        ToSet(r.notes[j].linked_entry_ids)
                            /= ToSet(notes[j].linked_entry_ids)
                  /\ Contains(r.notes[j].linked_entry_ids, entry_id) <=>
                        notes[j].id \in ToSet(note_ids)

C8_SyncNoteLinksExact ==
    \A note_id \in NoteIds, entry_ids \in SeqsUpTo(EntryIds, MaxLinks) :
        LET r == sync_note_entry_links(entries, note_id, entry_ids)
        IN  /\ Len(r.entries) = Len(entries)
            /\ ~HasDuplicate(r.touched)
            /\ ToSet(r.touched) \subseteq ToSet(r.entries)
            /\ \A i \in 1..Len(entries) :
                  /\ r.entries[i].id = entries[i].id
                  /\ InSeq(r.touched, r.entries[i]) <=>
                        ToSet(r.entries[i].note_ids) /= ToSet(entries[i].note_ids)
                  /\ Contains(r.entries[i].note_ids, note_id) <=>
                        entries[i].id \in ToSet(entry_ids)

OfType(seq, type) == SelectSeq(seq, LAMBDA m : m.type = type)

\* save_entry broadcasts a NoteUpdated for each note whose links it changed,
\* once, and for no other note
C8_SaveEntryStep ==
    (last'.op = "save_entry" /\ last'.result = "Ok") =>
        LET updates == OfType(last'.emitted, "NoteUpdated")
        IN  /\ Len(notes') = Len(notes)
            /\ ~HasDuplicate(updates)
            /\ \A k \in 1..Len(updates) : InSeq(notes', updates[k].note)
            /\ \A j \in 1..Len(notes) :
                  InSeq(updates, NoteUpdated(notes'[j])) <=>
                      ToSet(notes'[j].linked_entry_ids) /= ToSet(notes[j].linked_entry_ids)

C8_SaveNoteStep ==
    (last'.op = "save_note" /\ last'.result = "Ok") =>
        LET updates == OfType(last'.emitted, "EntryUpdated")
        IN  /\ Len(entries') = Len(entries)
            /\ ~HasDuplicate(updates)
            /\ \A k \in 1..Len(updates) : InSeq(entries', updates[k].entry)
            /\ \A i \in 1..Len(entries) :
                  InSeq(updates, EntryUpdated(entries'[i])) <=>
                      ToSet(entries'[i].note_ids) /= ToSet(entries[i].note_ids)

\* C8: sync_entry_note_links(entryId, desired) returns a note if and only if
\* the set of that note's linked entry ids differs before and after the
\* call, and after the call a note in the store refers to entryId if and
\* only if its id is in desired; so save_entry broadcasts NoteUpdated for
\* exactly the notes whose links it changed.  Likewise
\* sync_note_entry_links and save_note.
C8_TouchedExact ==
    /\ [](C8_SyncEntryLinksExact /\ C8_SyncNoteLinksExact)
    /\ [][C8_SaveEntryStep /\ C8_SaveNoteStep]_vars

\* a save_entry that names both notes of the store changed the links of one
\* of them only, and broadcast that one
C8_Witness ==
    /\ last.op = "save_entry"
    /\ last.result = "Ok"
    /\ Len(notes) = 2
    /\ \A j \in 1..Len(notes) : Contains(last.ret[1].note_ids, notes[j].id)
    /\ Len(OfType(last.emitted, "NoteUpdated")) = 1
    /\ connected_channels /= {}

ViewSymmetric(v) ==
    v /= None =>
        \A e \in v[1].entries, n \in v[1].notes :
            Contains(e.note_ids, n.id) <=> Contains(n.linked_entry_ids, e.id)

\* C9: the replica of a subscribed channel satisfies the link symmetry after
\* every single event delivered to it.
C9_ViewSymmetricAfterEachEvent ==
    [][\A c \in Channels :
          \A k \in 0..Len(sent'[c]) :
              ViewSymmetric(ApplyEvents(view[c], SubSeq(sent'[c], 1, k)))]_vars

\* the messages before the last are all of one type, the last is the message
EndsWith(emitted, before, message) ==
    /\ emitted /= <<>>
    /\ emitted[Len(emitted)] = message
    /\ \A k \in 1..(Len(emitted) - 1) : emitted[k].type = before

C10_SaveBroadcasts ==
    /\ \A d \in EntryDrafts(MaxLinks), now \in Times :
          LET r == save_entry(d, now)
          IN  r.result = "Ok" =>
                  /\ EndsWith(r.emitted, "NoteUpdated", EntryUpdated(r.ret[1]))
                  /\ r.ret[1] = EntryById(r.entries, r.ret[1].id)
    /\ \A d \in NoteDrafts(MaxLinks), now \in Times :
          LET r == save_note(d, now)
          IN  r.result = "Ok" =>
                  /\ EndsWith(r.emitted, "EntryUpdated", NoteUpdated(r.ret[1]))
                  /\ r.ret[1] = NoteById(r.notes, r.ret[1].id)

C10_SaveStep ==
    /\ (last'.op = "save_entry" /\ last'.result = "Ok") =>
          /\ EndsWith(last'.emitted, "NoteUpdated", EntryUpdated(last'.ret[1]))
          /\ \A j \in 1..Len(notes) :
                notes'[j] /= notes[j] => InSeq(last'.emitted, NoteUpdated(notes'[j]))
          /\ \A c \in connected_channels : sent'[c] = last'.emitted
    /\ (last'.op = "save_note" /\ last'.result = "Ok") =>
          /\ EndsWith(last'.emitted, "EntryUpdated", NoteUpdated(last'.ret[1]))
          /\ \A i \in 1..Len(entries) :
                entries'[i] /= entries[i] =>
                    InSeq(last'.emitted, EntryUpdated(entries'[i]))
          /\ \A c \in connected_channels : sent'[c] = last'.emitted

\* C10: a successful save_entry broadcasts the NoteUpdated of every touched
\* note first and one EntryUpdated, of the saved entry, last, whether or not
\* the save changed anything; a successful save_note broadcasts the
\* EntryUpdated of every touched entry first and one NoteUpdated, of the
\* saved note, last.  Each connected channel is pushed them in that order.
C10_SaveEventOrder == []C10_SaveBroadcasts /\ [][C10_SaveStep]_vars

\* a save_entry touched two notes and a subscribed channel was pushed the two
\* NoteUpdated and then the EntryUpdated
C10_Witness ==
    /\ last.op = "save_entry"
    /\ last.result = "Ok"
    /\ Len(last.emitted) = 3
    /\ \E c \in connected_channels : sent[c] = last.emitted

\* the first message is the message, the messages after it are all of one type
StartsWith(emitted, message, after) ==
    /\ emitted /= <<>>
    /\ emitted[1] = message
    /\ \A k \in 2..Len(emitted) : emitted[k].type = after

\* the NoteUpdated of a delete_entry: one for each note that held the id, of
\* the note as the store has it afterwards
NoteUpdatesOfDelete(ns_before, ns_after, entry_id, emitted) ==
    /\ Len(emitted) - 1 =
          Cardinality({j \in 1..Len(ns_before) :
                          Contains(ns_before[j].linked_entry_ids, entry_id)})
    /\ \A j \in 1..Len(ns_before) :
          Contains(ns_before[j].linked_entry_ids, entry_id) =>
              InSeq(emitted, NoteUpdated(ns_after[j]))

EntryUpdatesOfDelete(es_before, es_after, note_id, emitted) ==
    /\ Len(emitted) - 1 =
          Cardinality({i \in 1..Len(es_before) :
                          Contains(es_before[i].note_ids, note_id)})
    /\ \A i \in 1..Len(es_before) :
          Contains(es_before[i].note_ids, note_id) =>
              InSeq(emitted, EntryUpdated(es_after[i]))

C11_DeleteBroadcasts ==
    /\ \A id \in IdsOf(entries) :
          LET r == delete_entry(id)
          IN  /\ r.result = "Ok"
              /\ StartsWith(r.emitted, EntryRemoved(id), "NoteUpdated")
              /\ NoteUpdatesOfDelete(notes, r.notes, id, r.emitted)
    /\ \A id \in IdsOf(notes) :
          LET r == delete_note(id)
          IN  /\ r.result = "Ok"
              /\ StartsWith(r.emitted, NoteRemoved(id), "EntryUpdated")
              /\ EntryUpdatesOfDelete(entries, r.entries, id, r.emitted)

C11_DeleteStep ==
    /\ (last'.op = "delete_entry" /\ last'.result = "Ok") =>
          /\ \E id \in IdsOf(entries) \ IdsOf(entries') :
                /\ StartsWith(last'.emitted, EntryRemoved(id), "NoteUpdated")
                /\ NoteUpdatesOfDelete(notes, notes', id, last'.emitted)
          /\ \A c \in connected_channels : sent'[c] = last'.emitted
    /\ (last'.op = "delete_note" /\ last'.result = "Ok") =>
          /\ \E id \in IdsOf(notes) \ IdsOf(notes') :
                /\ StartsWith(last'.emitted, NoteRemoved(id), "EntryUpdated")
                /\ EntryUpdatesOfDelete(entries, entries', id, last'.emitted)
          /\ \A c \in connected_channels : sent'[c] = last'.emitted

\* C11: a successful delete_entry(E) broadcasts one EntryRemoved{E} first and
\* then one NoteUpdated for each touched note, and no EntryUpdated; a
\* successful delete_note(N) broadcasts one NoteRemoved{N} first and then one
\* EntryUpdated for each touched entry, and no NoteUpdated.  Each connected
\* channel is pushed them in that order.
C11_DeleteEventOrder == []C11_DeleteBroadcasts /\ [][C11_DeleteStep]_vars

\* a delete_note touched two entries and a subscribed channel was pushed the
\* NoteRemoved and then the two EntryUpdated
C11_Witness ==
    /\ last.op = "delete_note"
    /\ last.result = "Ok"
    /\ Len(last.emitted) = 3
    /\ last.emitted[1].type = "NoteRemoved"
    /\ \E c \in connected_channels : sent[c] = last.emitted

MutatingCommands == {"save_entry", "delete_entry", "save_note", "delete_note"}

\* the type of the event a command broadcasts about the record it was given
PrimaryType(op) ==
    CASE op = "save_entry"   -> "EntryUpdated"
      [] op = "delete_entry" -> "EntryRemoved"
      [] op = "save_note"    -> "NoteUpdated"
      [] op = "delete_note"  -> "NoteRemoved"

\* in what the channel was pushed, every event about a linked record comes
\* before the event about the primary record
LinkedFirst(pushed, op) ==
    \A k, p \in 1..Len(pushed) :
        (pushed[p].type = PrimaryType(op) /\ pushed[k].type /= PrimaryType(op)) => k < p

\* the event about the primary record comes before every event about a
\* linked record
PrimaryFirst(pushed, op) ==
    \A k, p \in 1..Len(pushed) :
        (pushed[p].type = PrimaryType(op) /\ pushed[k].type /= PrimaryType(op)) => p < k

\* C12 as stated: for each of save_entry, delete_entry, save_note and
\* delete_note every event about a linked record is delivered to a
\* subscriber before the command's event about the primary record.
C12_LinkedBeforePrimary ==
    [][(last'.op \in MutatingCommands /\ last'.result = "Ok") =>
          \A c \in connected_channels : LinkedFirst(sent'[c], last'.op)]_vars

\* C12 amended: a save delivers every event about a linked record before its
\* event about the primary record; a delete delivers its removal of the
\* primary record before every event about a linked record.
C12_SavesLinkedFirstDeletesPrimaryFirst ==
    [][(last'.op \in MutatingCommands /\ last'.result = "Ok") =>
          \A c \in connected_channels :
              IF last'.op \in {"save_entry", "save_note"}
              THEN LinkedFirst(sent'[c], last'.op)
              ELSE PrimaryFirst(sent'[c], last'.op)]_vars

\* a subscribed channel was pushed the EntryRemoved of a delete_entry and
\* then the NoteUpdated of a note that was linked to the entry
C12_Witness ==
    /\ last.op = "delete_entry"
    /\ last.result = "Ok"
    /\ \E c \in connected_channels :
          /\ Len(sent[c]) >= 2
          /\ sent[c][1].type = "EntryRemoved"
          /\ sent[c][2].type = "NoteUpdated"

Commands ==
    {"save_entry", "toggle_entry_completion", "delete_entry", "save_note", "delete_note"}

HasSnapshot(pushed) == \E k \in 1..Len(pushed) : pushed[k].type = "Snapshot"

\* a step of a command: what each channel is pushed is nothing or the whole
\* of that command's events in order, with no Snapshot among them, and the
\* subscriber set is as it was
C13_CommandStep ==
    last'.op \in Commands =>
        /\ \A c \in Channels :
              /\ sent'[c] \in {<<>>, last'.emitted}
              /\ ~HasSnapshot(sent'[c])
        /\ connected_channels' = connected_channels

\* a step of the websocket handler: no event of a command is pushed, only a
\* Snapshot of the store as it is, and the store is left alone
C13_WebsocketStep ==
    last'.op = "websocket" =>
        /\ store' = store
        /\ \A c \in Channels : sent'[c] \in {<<>>, <<Snapshot(entries, notes)>>}

SubscribeText == [utf8 |-> TRUE, text |-> <<"\"", "Subscribe", "\"">>]

\* a replica that holds every entry and every note of the store and nothing else
ReplicaOf(es, ns) == Some([entries |-> ToSet(es), notes |-> ToSet(ns)])

\* what a Subscribe of channel c leaves, from any state: c is subscribed
\* (once, whether or not it was before), c alone was pushed one Snapshot of
\* the store, and an event broadcast next would reach c once
C14_SubscribeOutcome ==
    \A c \in Channels :
        LET w == websocket(c, "Text", SubscribeText)
        IN  /\ w.connected_channels = connected_channels \cup {c}
            /\ w.pushed[c] = <<Snapshot(entries, notes)>>
            /\ ApplyEvents(view[c], w.pushed[c]) = ReplicaOf(entries, notes)
            /\ \A o \in Channels \ {c} : w.pushed[o] = <<>>
            /\ \A id \in EntryIds :
                  broadcast(NoPush, w.connected_channels, EntryRemoved(id))[c]
                      = <<EntryRemoved(id)>>

\* a websocket step that subscribed a channel or pushed anything
C14_SubscribeStep ==
    last'.op = "websocket" =>
        \A c \in Channels :
            (c \in connected_channels' \ connected_channels \/ sent'[c] /= <<>>) =>
                /\ connected_channels' = connected_channels \cup {c}
                /\ sent'[c] = <<Snapshot(entries', notes')>>
                /\ view'[c] = ReplicaOf(entries', notes')
                /\ \A o \in Channels \ {c} : sent'[o] = <<>>

\* a command step pushes its events once to each subscribed channel
C14_DeliveredOnce ==
    last'.op \in Commands => \A c \in connected_channels : sent'[c] = last'.emitted

\* C14: a well-formed Subscribe from a channel leaves the channel in the
\* subscriber set and sends that channel, and no other, exactly one Snapshot
\* holding every entry and every note of the store and nothing else; a
\* Subscribe from a channel that is subscribed already sends a fresh
\* Snapshot and the events broadcast later still reach the channel once.
C14_SubscribeSnapshots ==
    /\ []C14_SubscribeOutcome
    /\ [][C14_SubscribeStep /\ C14_DeliveredOnce]_vars

\* a channel was sent the Snapshot of a store that holds an entry and a note
\* while the other channel, subscribed too, was sent nothing
C14_Witness ==
    /\ last.op = "websocket"
    /\ entries /= <<>>
    /\ notes /= <<>>
    /\ \E c \in connected_channels, o \in connected_channels :
          /\ o /= c
          /\ sent[c] = <<Snapshot(entries, notes)>>
          /\ sent[o] = <<>>

\* a frame that is a well-formed Subscribe message
IsSubscribe(frame) == frame.message_type = "Text" /\ frame.payload = SubscribeText

\* the subscriber set changes with a Subscribe and with a Close of the
\* channel, and with nothing else
C15_SubscriberSet ==
    \A c \in Channels, frame \in Frames :
        LET w == websocket(c, frame.message_type, frame.payload)
        IN  w.connected_channels =
                IF IsSubscribe(frame) THEN connected_channels \cup {c}
                ELSE IF frame.message_type = "Close" THEN connected_channels \ {c}
                ELSE connected_channels

\* the subscribed channels are those whose client holds a replica: it was
\* sent a Snapshot and its channel has not closed since
C15_SubscribedSinceSnapshot ==
    \A c \in Channels : c \in connected_channels <=> view[c] /= None

\* every channel subscribed when the command ran is pushed each of its
\* events once, in order; every other channel is pushed nothing
C15_FanOutStep ==
    last'.op \in Commands =>
        \A c \in Channels :
            sent'[c] = IF c \in connected_channels THEN last'.emitted ELSE <<>>

\* C15: each event a command emits is sent once, with the same content, to
\* every channel that has subscribed and has not closed since, and to no
\* other channel.
C15_FanOutExact ==
    /\ [](C15_SubscriberSet /\ C15_SubscribedSinceSnapshot)
    /\ [][C15_FanOutStep]_vars

\* a command broadcast two events while one channel was subscribed and the
\* other was not: the first was pushed both, the other none
C15_Witness ==
    /\ last.op \in Commands
    /\ Len(last.emitted) = 2
    /\ \E c \in Channels, o \in Channels :
          /\ c \in connected_channels
          /\ o \notin connected_channels
          /\ sent[c] = last.emitted
          /\ sent[o] = <<>>

StoreOf(r) == <<r.entries, r.notes, r.next_entry_id, r.next_note_id>>

\* the draft a successful save_entry was given, read off the entry it
\* returned: a draft with an id if the store held the entry before
DraftOfEntry(entry) ==
    [id       |-> IF entry.id \in IdsOf(entries) THEN Some(entry.id) ELSE None,
     title    |-> entry.title,
     status   |-> entry.status,
     due_ts   |-> entry.due_ts,
     note_ids |-> entry.note_ids]

DraftOfNote(note) ==
    [id               |-> IF note.id \in IdsOf(notes) THEN Some(note.id) ELSE None,
     title            |-> note.title,
     linked_entry_ids |-> note.linked_entry_ids]

\* the calls of the handler on the store before the step that the value
\* returned by a successful step can have come from
Replayed ==
    LET op  == last'.op
        ret == last'.ret[1]
    IN  CASE op = "save_entry" ->
                {save_entry(DraftOfEntry(ret), now) : now \in Times}
          [] op = "toggle_entry_completion" ->
                {toggle_entry_completion(ret.id, ret.is_completed, now) : now \in Times}
          [] op = "delete_entry" ->
                {delete_entry(id) : id \in IdsOf(entries) \ IdsOf(entries')}
          [] op = "save_note" ->
                {save_note(DraftOfNote(ret), now) : now \in Times}
          [] op = "delete_note" ->
                {delete_note(id) : id \in IdsOf(notes) \ IdsOf(notes')}

\* the step committed what one call of the handler leaves, and returned what
\* the call returns
CommittedOneCall ==
    IF last'.result = "Ok"
    THEN \E r \in Replayed :
            /\ store' = StoreOf(r)
            /\ r.result = "Ok"
            /\ r.ret = last'.ret
            /\ r.emitted = last'.emitted
    ELSE store' = store

\* with no subscriber every command given an input that is valid succeeds,
\* and its broadcasts push nothing
C16_SucceedsUnheard ==
    connected_channels = {} =>
        /\ \A d \in CreatingEntryDrafts, now \in Times :
              LET r == save_entry(d, now)
              IN  /\ r.result = "Ok"
                  /\ BroadcastAll(NoPush, connected_channels, r.emitted) = NoPush
        /\ \A d \in CreatingNoteDrafts, now \in Times :
              LET r == save_note(d, now)
              IN  /\ r.result = "Ok"
                  /\ BroadcastAll(NoPush, connected_channels, r.emitted) = NoPush
        /\ \A id \in IdsOf(entries) :
              /\ \A completed \in BOOLEAN, now \in Times :
                    toggle_entry_completion(id, completed, now).result = "Ok"
              /\ LET r == delete_entry(id)
                 IN  /\ r.result = "Ok"
                     /\ BroadcastAll(NoPush, connected_channels, r.emitted) = NoPush
        /\ \A id \in IdsOf(notes) :
              LET r == delete_note(id)
              IN  /\ r.result = "Ok"
                  /\ BroadcastAll(NoPush, connected_channels, r.emitted) = NoPush

\* a command that ran with no subscriber committed what its handler leaves
\* and pushed nothing to any channel
C16_UnheardStep ==
    (connected_channels = {} /\ last'.op \in Commands) =>
        /\ CommittedOneCall
        /\ sent' = NoPush
        /\ view' = view

\* C16: when the subscriber set is empty every mutating command still
\* succeeds and commits the store changes its handler makes, the same as
\* with subscribers, sends nothing to any channel and raises no error.
C16_NoSubscriberNoOp == []C16_SucceedsUnheard /\ [][C16_UnheardStep]_vars

\* a delete_entry that had two events to broadcast ran with no subscriber
C16_Witness ==
    /\ connected_channels = {}
    /\ last.op = "delete_entry"
    /\ last.result = "Ok"
    /\ Len(last.emitted) = 2
    /\ sent = NoPush

\* a websocket step, whatever the frame, leaves entries, notes and both
\* counters as they were
C17_WebsocketStep == last'.op = "websocket" => (store' = store /\ assigned' = assigned)

\* a command step, whoever is subscribed and whatever was pushed before,
\* commits what one call of its handler leaves of the store before the step
\* and returns what that call returns
C17_CommandStep == last'.op \in Commands => CommittedOneCall

IsoWeekday(day) == ((day - Monday) % 7) + 1

UpcomingSunday(today) == today + (7 - IsoWeekday(today))

SameMonth(a, b) ==
    /\ CivilFromDays(a).year = CivilFromDays(b).year
    /\ CivilFromDays(a).month = CivilFromDays(b).month

\* the last day of today's month: the next day is in another month
LastDayOfMonthOf(today) ==
    CHOOSE d \in today..(today + 31) :
        /\ \A x \in today..d : SameMonth(x, today)
        /\ ~SameMonth(d + 1, today)

\* the ordered rules; due_date is None or Some(day), today is a day
Classify(is_completed, due_date, today) ==
    IF is_completed THEN "Completed"
    ELSE IF due_date = None THEN "Someday"
    ELSE IF due_date[1] < today THEN "Overdue"
    ELSE IF due_date[1] = today THEN "Today"
    ELSE IF due_date[1] <= UpcomingSunday(today) THEN "ThisWeek"
    ELSE IF due_date[1] <= LastDayOfMonthOf(today) THEN "ThisMonth"
    ELSE "Later"

\* the calendar day a timestamp falls on
DayOf(ts) == ts \div TicksPerDay

\* the due date of an entry, every timestamp falling on a day
DueDate(due_ts) == IF due_ts = None THEN None ELSE Some(DayOf(due_ts[1]))

\* the due date of an entry, a timestamp beyond the dates the calendar
\* library holds (years -262143 to 262142) falling on no day
HeldDueDate(due_ts) ==
    IF due_ts = None THEN None
    ELSE IF \/ DayOf(due_ts[1]) < DaysFromCivil(0 - 262143, 1, 1)
            \/ DayOf(due_ts[1]) > DaysFromCivil(262142, 12, 31)
    THEN None
    ELSE Some(DayOf(due_ts[1]))

\* the days taken for today: the Monday 2024-06-10, the Saturday and the
\* Sunday of its week, the Sunday 2024-06-30 that ends its month, the
\* Wednesday 2024-07-31 whose week ends in August, the Monday 2024-12-02,
\* the Tuesday 2024-12-31 whose week ends in 2025, and the leap day
\* 2024-02-29
GridDays ==
    {Monday, Monday + 5, Monday + 6, DaysFromCivil(2024, 6, 30),
     DaysFromCivil(2024, 7, 31), DaysFromCivil(2024, 12, 2), DaysFromCivil(2024, 12, 31),
     DaysFromCivil(2024, 2, 29)}

\* every timestamp of today
NowsOf(today) == {today * TicksPerDay + t : t \in 0..(TicksPerDay - 1)}

\* the due timestamps tried against a today: none, each of the days from the
\* day before to five weeks after at its first and its last tick, the epoch
\* and the tick before it, and the first and last timestamps chrono holds
\* and the ticks beyond them
DuesNear(today) ==
    {None}
    \cup {Some(d * TicksPerDay + t) :
             d \in (today - 1)..(today + 35), t \in {0, TicksPerDay - 1}}
    \cup {Some(0), Some(0 - 1),
          Some(DaysFromCivil(MinYear, 1, 1) * TicksPerDay),
          Some(DaysFromCivil(MinYear, 1, 1) * TicksPerDay - 1),
          Some(TooLate - 1)}

FarDues == {Some(TooLate), Some(DaysFromCivil(MinYear, 1, 1) * TicksPerDay - 1)}

EntryDue(is_completed, due_ts) ==
    [id |-> 1, title |-> <<"a">>, status |-> "Backlog", timescale |-> "Someday",
     due_ts |-> due_ts, note_ids |-> <<>>, is_completed |-> is_completed,
     completed_at_ts |-> None]

\* refresh_entry_timescale gives the bucket of the rules, with the due date
\* that due_date(_) reads off the timestamp
Classifies(due_date(_)) ==
    \A today \in GridDays :
        \A now \in NowsOf(today), due_ts \in DuesNear(today), is_completed \in BOOLEAN :
            refresh_entry_timescale(EntryDue(is_completed, due_ts), now).timescale
                = Classify(is_completed, due_date(due_ts), today)

\* the handlers store the bucket of the rules
HandlersClassify(due_date(_)) ==
    /\ \A d \in TimedEntryDrafts, now \in TimedNows :
          LET r == save_entry(d, now)
          IN  r.result = "Ok" =>
                  r.ret[1].timescale =
                      Classify(r.ret[1].is_completed, due_date(r.ret[1].due_ts), DayOf(now))
    /\ \A id \in IdsOf(entries), completed \in BOOLEAN, now \in TimedNows :
          LET r == toggle_entry_completion(id, completed, now)
          IN  r.ret[1].timescale =
                  Classify(completed, due_date(r.ret[1].due_ts), DayOf(now))

\* the literal examples of the rules, today being 2024-06-10, a Monday
C18_Examples ==
    LET now      == Monday * TicksPerDay + 1
        On(y, m, d) == Some(DaysFromCivil(y, m, d) * TicksPerDay)
        Bucket(is_completed, due_ts) ==
            refresh_entry_timescale(EntryDue(is_completed, due_ts), now).timescale
    IN  /\ IsoWeekday(Monday) = 1
        /\ Bucket(FALSE, On(2024, 6, 9)) = "Overdue"
        /\ Bucket(FALSE, On(2024, 6, 10)) = "Today"
        /\ Bucket(FALSE, On(2024, 6, 16)) = "ThisWeek"
        /\ Bucket(FALSE, On(2024, 6, 17)) = "ThisMonth"
        /\ Bucket(FALSE, On(2024, 6, 30)) = "ThisMonth"
        /\ Bucket(FALSE, On(2024, 7, 5)) = "Later"
        /\ Bucket(FALSE, None) = "Someday"
        /\ Bucket(TRUE, On(2024, 6, 9)) = "Completed"
        /\ Bucket(TRUE, None) = "Completed"

\* on a Sunday no day after today is in ThisWeek; a Sunday that lies in the
\* next month still ends ThisWeek
C18_Sundays ==
    /\ \A today \in GridDays :
          IsoWeekday(today) = 7 =>
              \A now \in NowsOf(today), due_ts \in DuesNear(today) :
                  compute_timescale(due_ts, now) = "ThisWeek" => FALSE
    /\ LET today == DaysFromCivil(2024, 7, 31)
       IN  compute_timescale(Some(DaysFromCivil(2024, 8, 4) * TicksPerDay),
                             today * TicksPerDay) = "ThisWeek"

\* the classifier on every due timestamp of the grid, each falling on a day
GridClassifiedEveryDue ==
    /\ Classifies(DueDate)
    /\ \A today \in GridDays :
          \A now \in NowsOf(today), due_ts \in FarDues :
              compute_timescale(due_ts, now) = Classify(FALSE, DueDate(due_ts), today)

\* the classifier on every due timestamp of the grid, those beyond the
\* calendar's dates falling on no day
GridClassifiedHeldDue ==
    /\ Classifies(HeldDueDate)
    /\ \A today \in GridDays :
          \A now \in NowsOf(today), due_ts \in FarDues :
              compute_timescale(due_ts, now) = Classify(FALSE, HeldDueDate(due_ts), today)

\* the entry a save or a toggle returned is in the bucket of the rules for
\* a reading of the clock
ReturnedClassified(due_date(_)) ==
    (last.op \in {"save_entry", "toggle_entry_completion"} /\ last.result = "Ok") =>
        \E now \in TimedNows :
            last.ret[1].timescale =
                Classify(last.ret[1].is_completed, due_date(last.ret[1].due_ts), DayOf(now))

\* C18 as stated: completed gives Completed; otherwise no due timestamp gives
\* Someday; otherwise the day of the due timestamp is compared with today:
\* before it Overdue, on it Today, up to the upcoming Sunday ThisWeek, up to
\* the last day of today's month ThisMonth, anything else Later.
C18_ClassifiesEveryDue == ReturnedClassified(DueDate)

\* C18 amended: as stated, but a due timestamp that falls on no date the
\* calendar library holds counts as no due date and gives Someday.
C18_ClassifiesHeldDue ==
    /\ GridClassifiedHeldDue
    /\ HandlersClassify(HeldDueDate)
    /\ ReturnedClassified(HeldDueDate)
    /\ C18_Examples
    /\ C18_Sundays

\* the store holds an entry that is due after every date there is, in
\* Someday, saved on the Monday
C18_Witness ==
    /\ last.op = "save_entry"
    /\ last.result = "Ok"
    /\ last.ret[1].due_ts = Some(TooLate)
    /\ last.ret[1].timescale = "Someday"
    /\ ~last.ret[1].is_completed
    /\ last.ret[1] \in ToSet(entries)

\* the readings of the clock a command can have taken: save_note leaves its
\* reading in the note it returns, the other commands leave none
NowsOfLast ==
    IF last.op = "save_note" /\ last.result = "Ok"
    THEN {last.ret[1].last_edited_ts}
    ELSE TimedNows

\* C19: the entry carried by every EntryUpdated event a command broadcasts,
\* for the entry it saved or toggled or for an entry whose links it
\* synchronised, has the timescale the rules give for its due timestamp and
\* completion flag on the day of the command.
C19_EventTimescaleCurrent ==
    \A k \in 1..Len(last.emitted) :
        last.emitted[k].type = "EntryUpdated" =>
            LET entry == last.emitted[k].entry
            IN  \E now \in NowsOfLast :
                    entry.timescale =
                        Classify(entry.is_completed, HeldDueDate(entry.due_ts), DayOf(now))

\* the fields of an entry that a toggle is not to touch
Untoggled(entry) ==
    [id |-> entry.id, title |-> entry.title, due_ts |-> entry.due_ts,
     note_ids |-> entry.note_ids]

\* what the toggle is to make of the entry, at the reading now of the clock
ToggledAsSaid(before, after, completed, now) ==
    /\ after.is_completed = completed
    /\ after.status = IF completed THEN "Done" ELSE before.status
    /\ after.completed_at_ts = IF completed THEN Some(now) ELSE None
    /\ after.timescale = Classify(completed, HeldDueDate(after.due_ts), DayOf(now))
    /\ Untoggled(after) = Untoggled(before)

C20_ToggleOutcome ==
    \A i \in 1..Len(entries), completed \in BOOLEAN, now \in TimedNows :
        LET r == toggle_entry_completion(entries[i].id, completed, now)
        IN  /\ r.result = "Ok"
            /\ ToggledAsSaid(entries[i], r.ret[1], completed, now)
            /\ r.entries = [entries EXCEPT ![i] = r.ret[1]]
            /\ r.notes = notes
            /\ r.next_entry_id = next_entry_id
            /\ r.next_note_id = next_note_id
            /\ r.emitted = <<EntryUpdated(r.ret[1])>>

C20_ToggleStep ==
    (last'.op = "toggle_entry_completion" /\ last'.result = "Ok") =>
        /\ last'.emitted = <<EntryUpdated(last'.ret[1])>>
        /\ \A c \in connected_channels : sent'[c] = last'.emitted
        /\ notes' = notes
        /\ next_entry_id' = next_entry_id
        /\ next_note_id' = next_note_id
        /\ Len(entries') = Len(entries)
        /\ \A i \in 1..Len(entries) :
              IF entries[i].id = last'.ret[1].id
              THEN /\ entries'[i] = last'.ret[1]
                   /\ \E now \in TimedNows :
                         ToggledAsSaid(entries[i], entries'[i],
                                       last'.ret[1].is_completed, now)
              ELSE entries'[i] = entries[i]

\* C20: toggle_entry_completion(id, completed) on an entry of the store sets
\* is_completed; with completed = true it sets status to Done and
\* completed_at_ts to the current time, with completed = false it clears
\* completed_at_ts and leaves status as it was; it recomputes the timescale,
\* changes no other field of the entry, no other entry and no note, and
\* broadcasts one EntryUpdated carrying the entry it returns.
C20_ToggleSemantics == []C20_ToggleOutcome /\ [][C20_ToggleStep]_vars

\* an entry that had been completed was un-completed and kept the status
\* Done, while the store held another entry and a note linked to the
\* toggled one, and a channel was subscribed
C20_Witness ==
    /\ last.op = "toggle_entry_completion"
    /\ last.result = "Ok"
    /\ ~last.ret[1].is_completed
    /\ last.ret[1].status = "Done"
    /\ last.ret[1].timescale = "Someday"
    /\ Len(entries) = 2
    /\ \E j \in 1..Len(notes) : Linked(last.ret[1], notes[j])
    /\ connected_channels /= {}

NotArchived(es) == {e \in ToSet(es) : e.status /= "Archived"}

\* the queries that match everything
EverythingQueries == {None, Some(<<>>), Some(<<"*">>)}

\* the queries of the model and, for each entry of the store, its title
QueriesAsked == SearchQueries \cup {Some(entries[i].title) : i \in 1..Len(entries)}

C21_SearchOutcome ==
    \A query \in QueriesAsked :
        LET r     == search_all(query)
            found == r.ret[1]
        IN  /\ r.result = "Ok"
            /\ \A k \in 1..Len(found.entries) : found.entries[k].status /= "Archived"
            /\ ToSet(found.entries) \subseteq ToSet(entries)
            /\ ToSet(found.notes) \subseteq ToSet(notes)
            /\ query \in EverythingQueries =>
                  /\ ToSet(found.entries) = NotArchived(entries)
                  /\ Len(found.entries) = Cardinality(NotArchived(entries))
                  /\ found.notes = notes
            /\ StoreOf(r) = store
            /\ r.emitted = <<>>

C21_SearchStep ==
    last'.op = "search_all" =>
        /\ store' = store
        /\ connected_channels' = connected_channels
        /\ view' = view
        /\ sent' = NoPush
        /\ last'.emitted = <<>>
        /\ last'.result = "Ok"
        /\ \A k \in 1..Len(last'.ret[1].entries) :
              /\ last'.ret[1].entries[k].status /= "Archived"
              /\ InSeq(entries, last'.ret[1].entries[k])

IdSeq(seq) == [i \in 1..Len(seq) |-> seq[i].id]

StrictlyIncreasing(ids) == \A i, j \in 1..Len(ids) : i < j => ids[i] < ids[j]

\* the ids of a list that are in S, in the order of the list
Surviving(ids, S) == SelectSeq(ids, LAMBDA x : x \in S)

\* the collection lists the records that survive in the order of creation
InCreationOrder(seq, created) ==
    /\ StrictlyIncreasing(IdSeq(seq))
    /\ IdSeq(seq) = Surviving(created, IdsOf(seq))

C22_CreationOrder ==
    /\ InCreationOrder(entries, assigned.entries)
    /\ InCreationOrder(notes, assigned.notes)

\* what a step makes of the order of a collection: save is the save command
\* of the collection, delete its delete command
OrderKept(before, after, save, delete) ==
    LET ok == last'.result = "Ok"
    IN  /\ Surviving(IdSeq(before), IdsOf(after)) = Surviving(IdSeq(after), IdsOf(before))
        /\ IF ok /\ last'.op = save /\ last'.ret[1].id \in IdsOf(before)
           THEN /\ IdSeq(after) = IdSeq(before)
                /\ \E i \in 1..Len(before) :
                      before[i].id = last'.ret[1].id /\ after[i] = last'.ret[1]
           ELSE IF ok /\ last'.op = save
           THEN /\ IdSeq(after) = Append(IdSeq(before), last'.ret[1].id)
                /\ after[Len(after)] = last'.ret[1]
           ELSE IF ok /\ last'.op = delete
           THEN /\ Len(after) = Len(before) - 1
                /\ IdSeq(after) = Surviving(IdSeq(before), IdsOf(after))
           ELSE IdSeq(after) = IdSeq(before)

C22_OrderStep ==
    /\ OrderKept(entries, entries', "save_entry", "delete_entry")
    /\ OrderKept(notes, notes', "save_note", "delete_note")

\* C22: each collection lists its surviving records in the order they were
\* created, which is strictly increasing id order; an update leaves the
\* record at its position, a creation appends, and a deletion leaves the
\* remaining records in the order they had.
C22_InsertionOrder == []C22_CreationOrder /\ [][C22_OrderStep]_vars

\* the first of three entries was deleted after the second had been updated
\* in place, and the second of three notes had been deleted before
C22_Witness ==
    /\ last.op = "delete_entry"
    /\ last.result = "Ok"
    /\ IdSeq(entries) = <<2, 3>>
    /\ entries[1].title = <<"b">>
    /\ IdSeq(notes) = <<1, 3>>

\* the frames that are to have no effect: every frame but a well-formed Subscribe
\* message and a Close
QuietFrames == {frame \in Frames : ~IsSubscribe(frame) /\ frame.message_type /= "Close"}

\* the handler, given such a frame, leaves the subscriber set and pushes nothing
C23_QuietOutcome ==
    \A c \in Channels, frame \in QuietFrames :
        LET w == websocket(c, frame.message_type, frame.payload)
        IN  /\ w.connected_channels = connected_channels
            /\ w.pushed = NoPush

C23_QuietStep ==
    (last'.op = "websocket" /\ last'.frame \in QuietFrames) =>
        /\ connected_channels' = connected_channels
        /\ store' = store
        /\ assigned' = assigned
        /\ sent' = NoPush
        /\ view' = view

\* C23: a Ping message, a text that parses as neither Subscribe nor Ping,
\* a payload that is not UTF-8 and a Binary, Ping or Pong frame leave the
\* subscriber set, the entries, the notes and both counters as they were and
\* send nothing to any channel.
C23_PingAndMalformedNoEffect == []C23_QuietOutcome /\ [][C23_QuietStep]_vars

\* a channel that is not subscribed sent the bare word Subscribe while the
\* other channel was subscribed and the store held an entry and a note
C23_Witness ==
    /\ last.op = "websocket"
    /\ last.frame.message_type = "Text"
    /\ last.frame.payload.text = <<"Subscribe">>
    /\ last.channel_id \notin connected_channels
    /\ connected_channels /= {}
    /\ entries /= <<>>
    /\ notes /= <<>>

Symmetric(es, ns) ==
    \A i \in 1..Len(es), j \in 1..Len(ns) : Linked(es[i], ns[j]) <=> LinkedBack(es[i], ns[j])

\* the message carries no record, or the record as the store es, ns holds it
CarriesStored(message, es, ns) ==
    /\ message.type = "EntryUpdated" => InSeq(es, message.entry)
    /\ message.type = "NoteUpdated" => InSeq(ns, message.note)

\* every send of the run is made from a symmetric store, which is the store
\* the handler leaves, and carries the record as that store holds it
SendsConsistent(run, r) ==
    /\ SelectSeq(run, LAMBDA p : p.message /= None)
          = [k \in 1..Len(r.emitted) |-> Point(r.entries, r.notes, Some(r.emitted[k]))]
    /\ \A k \in 1..Len(run) :
          run[k].message /= None =>
              /\ Symmetric(run[k].entries, run[k].notes)
              /\ CarriesStored(run[k].message[1], r.entries, r.notes)

C24_RunsConsistent ==
    /\ \A draft \in EntryDrafts(MaxLinks), now \in Times :
          SendsConsistent(SaveEntryRun(draft, now), save_entry(draft, now))
    /\ \A draft \in NoteDrafts(MaxLinks), now \in Times :
          SendsConsistent(SaveNoteRun(draft, now), save_note(draft, now))
    /\ \A id \in EntryIds :
          /\ SendsConsistent(DeleteEntryRun(id), delete_entry(id))
          /\ \A completed \in BOOLEAN, now \in Times :
                SendsConsistent(ToggleRun(id, completed, now),
                                toggle_entry_completion(id, completed, now))
    /\ \A id \in NoteIds : SendsConsistent(DeleteNoteRun(id), delete_note(id))

C24_SendStep ==
    last'.op \in Commands =>
        /\ Symmetric(entries', notes')
        /\ \A k \in 1..Len(last'.emitted) :
              CarriesStored(last'.emitted[k], entries', notes')
        /\ \A c \in connected_channels : sent'[c] = last'.emitted

\* C24: every send of a mutating command is made after the link
\* synchronisation has finished: the store at the send satisfies the link
\* symmetry invariant, and each EntryUpdated / NoteUpdated carries the record
\* as the store holds it when the command returns.
C24_SendsFromConsistentStore == []C24_RunsConsistent /\ [][C24_SendStep]_vars

\* a save_entry linked its entry to a note that did not name it, so that the
\* store was asymmetric until the synchroniser had run, and then sent the
\* note and the entry to a subscriber
C24_Witness ==
    /\ last.op = "save_entry"
    /\ last.result = "Ok"
    /\ Len(last.emitted) = 2
    /\ last.emitted[1].type = "NoteUpdated"
    /\ LinkedBack(last.ret[1], last.emitted[1].note)
    /\ \E c \in connected_channels : sent[c] = last.emitted

\* the replica of every subscribed channel is the store, record for record,
\* and a channel that is not subscribed holds none
C25_ReplicaIsStore ==
    \A c \in Channels :
        view[c] = IF c \in connected_channels THEN ReplicaOf(entries, notes) ELSE None

\* a step that changes a record of the store pushes to every subscriber, and
\* what the subscriber makes of the pushes is the store after the step
C25_AnnouncedStep ==
    \A c \in connected_channels' :
        /\ (<<entries', notes'>> /= <<entries, notes>>) => sent'[c] /= <<>>
        /\ c \in connected_channels =>
              ApplyEvents(ReplicaOf(entries, notes), sent'[c]) = ReplicaOf(entries', notes')

\* C25: for a channel that subscribed and has not closed, the view built from
\* its Snapshot and every later event applied in order holds, after each
\* command, exactly the entries and notes of the store, field for field; no
\* change of the store goes unannounced.
C25_ReplicasConverge == []C25_ReplicaIsStore /\ [][C25_AnnouncedStep]_vars

\* a save_note linked its note to an entry: the subscriber was sent the
\* touched entry and the note, and its replica holds both as the store does
C25_Witness ==
    /\ last.op = "save_note"
    /\ last.result = "Ok"
    /\ Len(last.emitted) = 2
    /\ last.emitted[1].type = "EntryUpdated"
    /\ Len(entries) = 2
    /\ \E c \in connected_channels :
          /\ sent[c] = last.emitted
          /\ last.emitted[1].entry \in view[c][1].entries
          /\ last.ret[1] \in view[c][1].notes

\* the records other than the one with the id are the same, in the same order
OthersKept(before, after, id) ==
    SelectSeq(after, LAMBDA x : x.id /= id) = SelectSeq(before, LAMBDA x : x.id /= id)

\* the notes are the same but for the presence of entry_id in their links
NotesDifferOnlyIn(before, after, entry_id) ==
    /\ Len(after) = Len(before)
    /\ \A j \in 1..Len(before) :
          [after[j] EXCEPT !.linked_entry_ids = Retain(@, entry_id)]
              = [before[j] EXCEPT !.linked_entry_ids = Retain(@, entry_id)]

\* the entries are the same but for the presence of note_id in their links
EntriesDifferOnlyIn(before, after, note_id) ==
    /\ Len(after) = Len(before)
    /\ \A i \in 1..Len(before) :
          [after[i] EXCEPT !.note_ids = Retain(@, note_id)]
              = [before[i] EXCEPT !.note_ids = Retain(@, note_id)]

\* a command on the entry with the id wrote that entry and its edges only
EntryCommandFrame(r, id) ==
    r.result = "Ok" =>
        /\ OthersKept(entries, r.entries, id)
        /\ NotesDifferOnlyIn(notes, r.notes, id)

NoteCommandFrame(r, id) ==
    r.result = "Ok" =>
        /\ OthersKept(notes, r.notes, id)
        /\ EntriesDifferOnlyIn(entries, r.entries, id)

\* from every reachable state, with the clock at the time of the saves or a
\* day later
C26_SyncOutcome ==
    /\ \A draft \in EntryDrafts(MaxLinks), now \in TimedNows :
          LET r == save_entry(draft, now)
          IN  EntryCommandFrame(r, IF r.result = "Ok" THEN r.ret[1].id ELSE 0)
    /\ \A id \in EntryIds : EntryCommandFrame(delete_entry(id), id)
    /\ \A draft \in NoteDrafts(MaxLinks), now \in TimedNows :
          LET r == save_note(draft, now)
          IN  NoteCommandFrame(r, IF r.result = "Ok" THEN r.ret[1].id ELSE 0)
    /\ \A id \in NoteIds : NoteCommandFrame(delete_note(id), id)

C26_SyncStep ==
    LET r == [entries |-> entries', notes |-> notes', result |-> last'.result]
    IN  /\ last'.op = "save_entry" =>
              EntryCommandFrame(r, IF r.result = "Ok" THEN last'.ret[1].id ELSE 0)
        /\ last'.op = "delete_entry" =>
              \A id \in IdsOf(entries) \ IdsOf(entries') : EntryCommandFrame(r, id)
        /\ last'.op = "save_note" =>
              NoteCommandFrame(r, IF r.result = "Ok" THEN last'.ret[1].id ELSE 0)
        /\ last'.op = "delete_note" =>
              \A id \in IdsOf(notes) \ IdsOf(notes') : NoteCommandFrame(r, id)

\* C26: save_entry of entry E and delete_entry(E) leave every other entry as
\* it was and change nothing in any note but the presence of E.id in its
\* linked_entry_ids (no other linked id, no other field); save_note of note N
\* and delete_note(N) likewise leave every other note as it was and change
\* nothing in any entry but the presence of N.id in its note_ids.
C26_SyncTouchesOneEdgeSet == []C26_SyncOutcome /\ [][C26_SyncStep]_vars

\* a save_entry gave a note that was linked to the other entry a second
\* link, to its own entry, and the note kept the first
C26_Witness ==
    /\ last.op = "save_entry"
    /\ last.result = "Ok"
    /\ Len(entries) = 2
    /\ \E k \in 1..Len(last.emitted) :
          /\ last.emitted[k].type = "NoteUpdated"
          /\ Len(last.emitted[k].note.linked_entry_ids) = 2
          /\ ToSet(last.emitted[k].note.linked_entry_ids) = IdsOf(entries)
          /\ InSeq(notes, last.emitted[k].note)

Agrees(entry) == entry.timescale = "Completed" <=> entry.is_completed

C27_StoredAgree == \A i \in 1..Len(entries) : Agrees(entries[i])

C27_SaveStep ==
    (last'.op = "save_entry" /\ last'.result = "Ok") =>
        LET saved == last'.ret[1]
        IN  /\ Agrees(saved)
            /\ InSeq(entries', saved)
            /\ IF saved.id \in IdsOf(entries)
               THEN LET old == EntryById(entries, saved.id)
                    IN  /\ saved.is_completed = old.is_completed
                        /\ saved.completed_at_ts = old.completed_at_ts
                        /\ old.is_completed => saved.timescale = "Completed"
               ELSE /\ ~saved.is_completed
                    /\ saved.timescale /= "Completed"

C27_SentAgree ==
    \A k \in 1..Len(last.emitted) :
        last.emitted[k].type = "EntryUpdated" => Agrees(last.emitted[k].entry)

\* C27: in every reachable state every entry has timescale Completed if and
\* only if is_completed is true; a save_entry of a completed entry changes
\* neither is_completed nor completed_at_ts and leaves it Completed whatever
\* the draft's due date, and a created entry is never Completed.
C27_TimescaleAgreesWithCompletion ==
    [](C27_StoredAgree /\ C27_SentAgree) /\ [][C27_SaveStep]_vars

\* an entry completed on the Monday was saved with a draft due on that
\* Monday and another status, and stayed Completed
C27_Witness ==
    /\ last.op = "save_entry"
    /\ last.result = "Ok"
    /\ last.ret[1].is_completed
    /\ last.ret[1].timescale = "Completed"
    /\ last.ret[1].due_ts = Some(Monday * TicksPerDay)
    /\ last.ret[1].completed_at_ts = Some(Monday * TicksPerDay + 1)
    /\ last.ret[1].status = "InProgress"
    /\ InSeq(entries, last.ret[1])

====
